---------------------------- MODULE Spec2Model ----------------------------
(***************************************************************************)
(* A model of the zaichik message broker.                                  *)
(*                                                                         *)
(* The components are modelled each with its own specification:            *)
(*                                                                         *)
(*   TopicSpec  one TopicController (src/src/topic_controller.rs): its     *)
(*              compaction map, its retained buffer, its broadcast channel *)
(*              and the streams that subscribe() hands out.                *)
(*   Spec       the broker process (src/src/main.rs,                       *)
(*              src/src/subscription_manager.rs,                           *)
(*              src/src/topic_registry.rs): the reader task of every       *)
(*              connection, the global broadcast of wrapped frames, the    *)
(*              topic registry and the SubscriptionManager loop with its   *)
(*              MessagesBuffer, under the workloads of Workloads.          *)
(*   LiveSpec   the same broker with clients that commit every frame       *)
(*              they read, and fair scheduling of the tasks.               *)
(*   CloseSpec  the same broker with clients that leave, and fair          *)
(*              scheduling of the tasks.                                   *)
(*   DedupSpec  the same broker with one client that uses one key on two   *)
(*              topics that deduplicate.                                   *)
(*   ResubSpec  one TopicController whose subscriber subscribes again.     *)
(*   CodecSpec  ZaichikCodec (src/src/protocol.rs): frames encoded into a  *)
(*              byte stream that is read in pieces and decoded.            *)
(*                                                                         *)
(* Instants and durations are natural numbers (milliseconds).  An          *)
(* Option<T> is a sequence of length at most one: None is <<>> and         *)
(* Some(x) is <<x>>.                                                       *)
(***************************************************************************)
EXTENDS Naturals, Integers, Sequences, FiniteSets, TLC

-----------------------------------------------------------------------------
(* Bounds of the model. *)

\* The clock runs from 0 to MaxTime.
MaxTime == 3

\* At most MaxPub calls of TopicController::publish are explored.
MaxPub == 3

\* A frame may wait at most MaxDelay ticks between being stamped by the
\* reader and being published to the topic.
MaxDelay == 1

\* Under ResubSpec a subscriber subscribes again at most MaxResubscribe times.
MaxResubscribe == 1

\* The broker is explored under the workloads of Workloads; each reads at
\* most so many frames from the clients' sockets.
FlowFrames == 6

TopicsFrames == 6

FanoutFrames == 4

TimedFrames == 3

LeaveFrames == 3

\* Under LiveSpec the clients send at most LiveFrames frames besides the
\* Commit frames that answer what they read.
LiveFrames == 4

\* A reader does not send its next frame while a running manager still has
\* MaxInbox frames of the global broadcast to handle (RaceInbox frames in
\* the workload race).
MaxInbox == 1

RaceInbox == 2
LeaveInbox == 2

\* Under DedupSpec the client sends at most DedupFrames frames.
DedupFrames == 7
LagFrames == 3
CloseFrames == 3
ExpiryFrames == 4
LagCapacity == 1

RaceFrames == 3

-----------------------------------------------------------------------------
(* Inputs. *)

None == <<>>

Some(x) == <<x>>

IsSome(o) == o # None

Unwrap(o) == o[1]

\* Message keys a client may send (Option<String>).
Keys == {None, Some("k1"), Some("k2")}

\* retention_ttl and compaction_window arguments in milliseconds (u64);
\* zero means "disabled".
TtlChoices == {0, 2}

WindowChoices == {0, 2}

\* buffer_size arguments of TopicController::new; zero selects the default.
BufferSizeChoices == {0, 2}

\* Handles of the streams returned by TopicController::subscribe.
Subscribers == {1}

\* Connections (peers) the listener may accept.
Conns == {1, 2}

\* Topic names.
Topics == {"a", "b"}

-----------------------------------------------------------------------------
VARIABLES
    now,        \* time::Instant::now()
    settings,   \* TopicController.settings
    compaction_map,   \* TopicController.compaction_map: key -> Option<Instant>
    retained_buffer,  \* TopicController.retained_buffer
    stream,     \* per subscriber: None, or Some of the chained stream
    published,  \* history: every call of publish, in the order applied
    got,        \* history: per subscriber, what its stream has yielded
    registry,   \* TopicRegistry.topics: topic -> Option<TopicSettings>
    status,     \* per connection: "new", "open", "closing" or "eof"
    running,    \* per connection: its SubscriptionManager loop is running
    pending,    \* per connection: the frame its reader has wrapped, not yet sent
    inbox,      \* per connection: frames of the global broadcast not yet handled
    pc,         \* per connection: where its manager is in the Subscribe handler
    subscribed_on,  \* SubscriptionManager.subscribed_on (the topic names)
    buffer,     \* SubscriptionManager.message_buffer.buffer
    dedup_map,  \* SubscriptionManager.message_buffer.dedup_map
    waiting_for_next_message,  \* SubscriptionManager.waiting_for_next_message
    sent,       \* history: per connection, the messages written to the client
    unacked,    \* history: frames written since the last Commit was handled
    joined,     \* history: publishes broadcast before the connection was accepted
    sub_start,  \* history: publishes broadcast before Subscribe{topic} was handled
    nframes,    \* history: frames read from the sockets
    npub,       \* history: Publish frames sent to the global broadcast
    wire,       \* history: the Publish frames sent to it, in order
    lagged,     \* per connection: the receiver has been overrun (RecvError::Lagged pending)
    tcp,        \* bytes the encoder has written and the decoder's side has not read
    buf,        \* the BytesMut that ZaichikCodec::decode is called on
    encoded,    \* history: the frames given to ZaichikCodec::encode, in order
    decoded,    \* history: the result of every decode call on a non-empty buffer,
                \* with the length of the buffer it was called on
    workload    \* what the clients do in this run (never changes)

topic_vars == <<settings, compaction_map, retained_buffer, stream, published, got>>

reader_vars == <<status, pending, nframes>>

manager_vars == <<running, pc, subscribed_on, buffer, dedup_map,
                  waiting_for_next_message, sent, unacked, sub_start>>

broker_vars == <<registry, reader_vars, inbox, manager_vars, lagged, joined, npub, wire,
                 workload>>

codec_vars == <<tcp, buf, encoded, decoded>>

vars == <<now, topic_vars, broker_vars, codec_vars>>

-----------------------------------------------------------------------------
(* protocol.rs: ZaichikFrame and ZaichikCodec.                              *)
(*                                                                         *)
(* A byte is a number of 0..255 and a byte buffer is a sequence of bytes.  *)
(* A String is the sequence of its UTF-8 bytes.  bincode writes the        *)
(* variant index of an enum as a little-endian u32 and the length of a     *)
(* String or of a Vec<u8> as a little-endian u64, followed by the bytes.   *)

\* At most MaxCodecFrames frames are encoded into one stream, and decode is
\* called at most MaxDecodeCalls times on a buffer that is not empty.
MaxCodecFrames == 2

MaxDecodeCalls == 2

\* The width in bytes of the variant index (u32) and of a length (u64).
TagWidth == 4

LenWidth == 8

\* The topics and the payloads of the frames that are encoded: the strings
\* "" and "a", and payloads that hold bytes which are no UTF-8.
CodecStrings == {<<>>, <<97>>}

CodecPayloads == {<<>>, <<255>>}

\* ZaichikFrame::Publish { topic, payload }
CodecPublish(topic, payload) == [kind |-> "Publish", topic |-> topic, payload |-> payload]

\* ZaichikFrame::Subscribe { topic }
CodecSubscribe(topic) == [kind |-> "Subscribe", topic |-> topic, payload |-> <<>>]

CodecFrames ==
    {CodecPublish(t, b) : t \in CodecStrings, b \in CodecPayloads}
        \cup {CodecSubscribe(t) : t \in CodecStrings}

Take(bytes, n) == SubSeq(bytes, 1, n)

Drop(bytes, n) == SubSeq(bytes, n + 1, Len(bytes))

\* A number of at least 2^16 decides every comparison of the model as any
\* larger number does: no buffer is that long and no variant has that index.
Beyond == 256 * 256

\* n.to_le_bytes(), for n < 2^16
ToLittleEndian(n, width) ==
    [i \in 1..width |-> IF i = 1 THEN n % 256
                        ELSE IF i = 2 THEN (n \div 256) % 256
                        ELSE 0]

\* u32::from_le_bytes, u64::from_le_bytes
FromLittleEndian(bytes) ==
    IF \E i \in 3..Len(bytes) : bytes[i] # 0
    THEN Beyond
    ELSE bytes[1] + 256 * bytes[2]

\* Serializer::serialize_bytes, Serializer::serialize_str
WriteBytes(value) == ToLittleEndian(Len(value), LenWidth) \o value

\* bincode::serialize(&item)
serialize(item) ==
    IF item.kind = "Publish"
    THEN ToLittleEndian(0, TagWidth) \o WriteBytes(item.topic) \o WriteBytes(item.payload)
    ELSE ToLittleEndian(1, TagWidth) \o WriteBytes(item.topic)

\* Deserializer::deserialize_byte_buf: the length, then that many bytes; an
\* error when the slice ends before.
ReadBytes(bytes) ==
    IF Len(bytes) < LenWidth
    THEN [ok |-> FALSE, value |-> <<>>, rest |-> <<>>]
    ELSE LET n    == FromLittleEndian(Take(bytes, LenWidth))
             body == Drop(bytes, LenWidth)
         IN  IF n > Len(body)
             THEN [ok |-> FALSE, value |-> <<>>, rest |-> <<>>]
             ELSE [ok |-> TRUE, value |-> Take(body, n), rest |-> Drop(body, n)]

\* str::from_utf8 accepts the bytes.  Every byte of the model above 127 is
\* 255, which is part of no UTF-8 sequence.
ValidUtf8(bytes) == \A i \in 1..Len(bytes) : bytes[i] < 128

\* Deserializer::deserialize_string
ReadString(bytes) ==
    LET read == ReadBytes(bytes)
    IN  IF read.ok /\ ValidUtf8(read.value)
        THEN read
        ELSE [ok |-> FALSE, value |-> <<>>, rest |-> <<>>]

DeserializeError == [ok |-> FALSE, frame |-> CodecSubscribe(<<>>)]

\* bincode::deserialize::<ZaichikFrame>(&buf[..]): the bytes after the frame
\* are left unread and are no error.
deserialize(bytes) ==
    IF Len(bytes) < TagWidth
    THEN DeserializeError
    ELSE LET tag   == FromLittleEndian(Take(bytes, TagWidth))
             topic == ReadString(Drop(bytes, TagWidth))
         IN  IF tag = 0
             THEN IF topic.ok
                  THEN LET payload == ReadBytes(topic.rest)
                       IN  IF payload.ok
                           THEN [ok |-> TRUE,
                                 frame |-> CodecPublish(topic.value, payload.value)]
                           ELSE DeserializeError
                  ELSE DeserializeError
             ELSE IF tag = 1
             THEN IF topic.ok
                  THEN [ok |-> TRUE, frame |-> CodecSubscribe(topic.value)]
                  ELSE DeserializeError
             ELSE DeserializeError

\* A size that leaves the payload of a Publish out.
serialized_size_without_payload(item) == TagWidth + LenWidth + Len(item.topic)

\* bincode::serialized_size(&decoded)
serialized_size(item) ==
    IF item.kind = "Publish"
    THEN TagWidth + LenWidth + Len(item.topic) + LenWidth + Len(item.payload)
    ELSE TagWidth + LenWidth + Len(item.topic)

\* The results of decode: Ok(None), Ok(Some(frame)) and Err(io::Error).
OkNone == [kind |-> "none", frame |-> None]

OkSome(frame) == [kind |-> "frame", frame |-> Some(frame)]

DecodeErr == [kind |-> "error", frame |-> None]

\* impl Encoder for ZaichikCodec: encode
encode(item, bytes_mut) == bytes_mut \o serialize(item)

\* impl Decoder for ZaichikCodec: decode.  The result and the bytes_mut it leaves.
decode(bytes_mut) ==
    IF bytes_mut # <<>>
    THEN LET got_frame == deserialize(bytes_mut)
         IN  IF got_frame.ok
             THEN [buf    |-> Drop(bytes_mut, serialized_size(got_frame.frame)),
                   result |-> OkSome(got_frame.frame)]
             ELSE [buf |-> <<>>, result |-> DecodeErr]
    ELSE [buf |-> bytes_mut, result |-> OkNone]

\* ZaichikCodec::new, on a stream nothing was written to.
CodecNew ==
    /\ tcp = <<>>
    /\ buf = <<>>
    /\ encoded = <<>>
    /\ decoded = <<>>

\* The sending side encodes a frame into the stream.
CodecEncode(item) ==
    /\ Len(encoded) < MaxCodecFrames
    /\ tcp' = encode(item, tcp)
    /\ encoded' = Append(encoded, item)
    /\ UNCHANGED <<buf, decoded>>

\* The receiving side reads the next n bytes of the stream into its buffer.
SocketRead(n) ==
    /\ n \in 1..Len(tcp)
    /\ buf' = buf \o Take(tcp, n)
    /\ tcp' = Drop(tcp, n)
    /\ UNCHANGED <<encoded, decoded>>

\* The receiving side calls decode on its buffer.
CodecDecode ==
    /\ buf # <<>> => Len(decoded) < MaxDecodeCalls
    /\ \E done \in {decode(buf)} :
          /\ buf' = done.buf
          /\ decoded' = IF buf # <<>>
                        THEN Append(decoded, [result |-> done.result, had |-> Len(buf)])
                        ELSE decoded
    /\ UNCHANGED <<tcp, encoded>>

-----------------------------------------------------------------------------
(* TopicSettings::new *)

DefaultBufferSize == 1000

TopicSettingsNew(retention_ttl, compaction_window, buffer_size) ==
    [ retention_ttl     |-> IF retention_ttl = 0 THEN None ELSE Some(retention_ttl),
      compaction_window |-> IF compaction_window = 0 THEN None ELSE Some(compaction_window),
      buffer_size       |-> IF buffer_size = 0 THEN DefaultBufferSize ELSE buffer_size ]


-----------------------------------------------------------------------------
(* TopicController *)

KeyNames == {Unwrap(k) : k \in Keys \ {None}}

\* What publish builds from its arguments.  The payload is represented by id,
\* the number of the publish call, so that every message can be told apart.
NewMessage(id, key, received_at) ==
    [ id          |-> id,
      key         |-> key,
      received_at |-> received_at,
      expires_at  |-> IF IsSome(settings.retention_ttl)
                      THEN Some(received_at + Unwrap(settings.retention_ttl))
                      ELSE None ]

\* The mutant of check_duplicate_and_update_compaction_map that restarts the
\* window at every duplicate.
SlidingCheckDuplicate(message, map, compaction_window) ==
    IF message.key = None
    THEN [dup |-> FALSE, map |-> map]
    ELSE LET key == Unwrap(message.key) IN
         IF IsSome(map[key])
         THEN [ dup |-> now - Unwrap(map[key]) < compaction_window,
                map |-> [map EXCEPT ![key] = Some(now)] ]
         ELSE [dup |-> FALSE, map |-> [map EXCEPT ![key] = Some(now)]]

\* The mutant of check_duplicate_and_update_compaction_map that finds no
\* duplicates.
NeverDuplicate(message, map, compaction_window) ==
    IF message.key = None
    THEN [dup |-> FALSE, map |-> map]
    ELSE [dup |-> FALSE, map |-> [map EXCEPT ![Unwrap(message.key)] = Some(now)]]

\* The mutant of check_duplicate_and_update_compaction_map whose window
\* includes its end.
InclusiveCheckDuplicate(message, map, compaction_window) ==
    IF message.key = None
    THEN [dup |-> FALSE, map |-> map]
    ELSE LET key == Unwrap(message.key) IN
         IF IsSome(map[key])
         THEN IF now - Unwrap(map[key]) <= compaction_window
              THEN [dup |-> TRUE, map |-> map]
              ELSE [dup |-> FALSE, map |-> [map EXCEPT ![key] = Some(now)]]
         ELSE [dup |-> FALSE, map |-> [map EXCEPT ![key] = Some(now)]]

\* The mutant of check_duplicate_and_update_compaction_map that keeps one
\* instant for all the messages without a key and for all the keys.
KeyBlindCheckDuplicate(message, map, compaction_window) ==
    LET stored == {map[k] : k \in KeyNames} \ {None}
        newest == CHOOSE t \in stored : \A u \in stored : Unwrap(u) <= Unwrap(t)
        marked == [k \in KeyNames |-> Some(now)]
    IN IF stored # {} /\ now - Unwrap(newest) < compaction_window
       THEN [dup |-> TRUE, map |-> map]
       ELSE [dup |-> FALSE, map |-> marked]

\* The mutant of check_duplicate_and_update_compaction_map that does not
\* store the instant of a key it has not seen.
CheckDuplicateWithoutInsert(message, map, compaction_window) ==
    IF message.key = None
    THEN [dup |-> FALSE, map |-> map]
    ELSE LET key == Unwrap(message.key) IN
         IF IsSome(map[key])
         THEN IF now - Unwrap(map[key]) < compaction_window
              THEN [dup |-> TRUE, map |-> map]
              ELSE [dup |-> FALSE, map |-> [map EXCEPT ![key] = Some(now)]]
         ELSE [dup |-> FALSE, map |-> map]

\* Returns whether the message is a duplicate, and the updated map.
check_duplicate_and_update_compaction_map(message, map, compaction_window) ==
    IF message.key = None
    THEN [dup |-> FALSE, map |-> map]
    ELSE LET key == Unwrap(message.key) IN
         IF IsSome(map[key])
         THEN LET since_last_seen == now - Unwrap(map[key]) IN
              IF since_last_seen < compaction_window
              THEN [dup |-> TRUE, map |-> map]
              ELSE [dup |-> FALSE, map |-> [map EXCEPT ![key] = Some(now)]]
         ELSE [dup |-> FALSE, map |-> [map EXCEPT ![key] = Some(now)]]

\* The mutant of clean_outdated_compaction_keys that removes nothing.
KeepAllCompactionKeys(map) == map

clean_outdated_compaction_keys(map) ==
    IF IsSome(settings.compaction_window)
    THEN [k \in KeyNames |->
            IF IsSome(map[k]) /\ Unwrap(map[k]) + Unwrap(settings.compaction_window) < now
            THEN None ELSE map[k]]
    ELSE map

\* The mutant of clean_outdated_retained_messages that also keeps the
\* messages that expire now.
KeepExpiringNow(retained) ==
    IF IsSome(settings.retention_ttl)
    THEN SelectSeq(retained, LAMBDA message : Unwrap(message.expires_at) >= now)
    ELSE retained

clean_outdated_retained_messages(retained) ==
    IF IsSome(settings.retention_ttl)
    THEN SelectSeq(retained, LAMBDA message : Unwrap(message.expires_at) > now)
    ELSE retained

\* The mutant of ReceiverPush that puts the newest message first.
ReceiverPushFront(st, message) ==
    [st EXCEPT !.live = <<message>> \o @]

\* broadcast::Sender::send as one receiver sees it: the channel keeps the last
\* buffer_size messages; a receiver that has not read the oldest one when it
\* is overwritten loses it and is told so (RecvError::Lagged) by its next read.
ReceiverPush(st, message) ==
    IF Len(st.live) >= settings.buffer_size
    THEN [st EXCEPT !.live = Append(Tail(@), message), !.lagged = TRUE, !.missed = TRUE]
    ELSE [st EXCEPT !.live = Append(@, message)]

BroadcastSend(message) ==
    [s \in Subscribers |->
        IF IsSome(stream[s]) THEN Some(ReceiverPush(Unwrap(stream[s]), message))
        ELSE stream[s]]

\* The mutant of Publish that returns when the broadcast channel has no
\* receiver, before the message is retained.
PublishOnlyToReceivers(key, received_at) ==
    /\ Len(published) < MaxPub
    /\ LET message == NewMessage(Len(published) + 1, key, received_at)
           checked == IF IsSome(settings.compaction_window)
                      THEN check_duplicate_and_update_compaction_map(
                               message, compaction_map, Unwrap(settings.compaction_window))
                      ELSE [dup |-> FALSE, map |-> compaction_map]
           is_duplicate == checked.dup
           received == \E s \in Subscribers : IsSome(stream[s])
           pushed == IF ~is_duplicate /\ received /\ IsSome(settings.retention_ttl)
                     THEN Append(retained_buffer, message)
                     ELSE retained_buffer
       IN /\ stream' = IF is_duplicate THEN stream ELSE BroadcastSend(message)
          /\ retained_buffer' = clean_outdated_retained_messages(pushed)
          /\ compaction_map' = clean_outdated_compaction_keys(checked.map)
          /\ published' = Append(published,
                                 [m |-> message, at |-> now, dup |-> is_duplicate])
    /\ UNCHANGED <<codec_vars, now, settings, got, broker_vars>>

\* TopicController::publish(key, payload, received_at)
Publish(key, received_at) ==
    /\ Len(published) < MaxPub
    /\ LET message == NewMessage(Len(published) + 1, key, received_at)
           checked == IF IsSome(settings.compaction_window)
                      THEN check_duplicate_and_update_compaction_map(
                               message, compaction_map, Unwrap(settings.compaction_window))
                      ELSE [dup |-> FALSE, map |-> compaction_map]
           is_duplicate == checked.dup
           pushed == IF ~is_duplicate /\ IsSome(settings.retention_ttl)
                     THEN Append(retained_buffer, message)
                     ELSE retained_buffer
       IN /\ stream' = IF is_duplicate THEN stream ELSE BroadcastSend(message)
          /\ retained_buffer' = clean_outdated_retained_messages(pushed)
          /\ compaction_map' = clean_outdated_compaction_keys(checked.map)
          /\ published' = Append(published,
                                 [m |-> message, at |-> now, dup |-> is_duplicate])
    /\ UNCHANGED <<codec_vars, now, settings, got, broker_vars>>

\* The mutant of Snapshot that clones the buffer without its newest message.
SnapshotWithoutLast(retained) ==
    IF retained = <<>> THEN retained ELSE SubSeq(retained, 1, Len(retained) - 1)

\* retained_buffer.iter().map(|message| Ok(message.clone())).collect()
Snapshot(retained) == retained

\* TopicController::subscribe: the snapshot of the retained buffer chained
\* with a fresh receiver of the broadcast channel.  sub_at, start and snap0
\* are history: when the stream was made, how many publishes had been applied
\* and what the snapshot held; nth and got0 are history too: how many streams
\* the subscriber has been given, this one included, and how many messages
\* its earlier streams had yielded.
Subscribe(s) ==
    /\ stream[s] = None
    /\ stream' = [stream EXCEPT ![s] =
           Some([ snapshot |-> Snapshot(retained_buffer),
                  live     |-> <<>>,
                  lagged   |-> FALSE,
                  missed   |-> FALSE,
                  sub_at   |-> now,
                  start    |-> Len(published),
                  snap0    |-> Snapshot(retained_buffer),
                  nth      |-> 1,
                  got0     |-> 0 ])]
    /\ UNCHANGED <<codec_vars, now, settings, compaction_map, retained_buffer, published, got, broker_vars>>

\* The mutant of message_is_out_of_date that lets a message live one
\* millisecond longer.
GenerousOutOfDate(message, retention_ttl) ==
    now - message.received_at > retention_ttl + 1

\* MessagesBuffer::message_is_out_of_date
message_is_out_of_date(message, retention_ttl) ==
    LET time_passed == now - message.received_at IN
    time_passed > retention_ttl

\* One poll of the chained stream by its consumer: first the snapshot, then
\* the receiver, which reports a pending lag before its next message.  The
\* consumer drops a message that is out of date when it is selected: got
\* records every message the stream yielded and whether it was dropped so.
StreamNext(s) ==
    /\ IsSome(stream[s])
    /\ LET st == Unwrap(stream[s]) IN
       \/ /\ st.snapshot # <<>>
          /\ stream' = [stream EXCEPT ![s] = Some([st EXCEPT !.snapshot = Tail(@)])]
          /\ got' = [got EXCEPT ![s] = Append(@,
                 [ m |-> Head(st.snapshot),
                   expired |-> /\ IsSome(settings.retention_ttl)
                               /\ message_is_out_of_date(Head(st.snapshot),
                                                         Unwrap(settings.retention_ttl)) ])]
       \/ /\ st.snapshot = <<>>
          /\ st.lagged
          /\ stream' = [stream EXCEPT ![s] = Some([st EXCEPT !.lagged = FALSE])]
          /\ got' = got
       \/ /\ st.snapshot = <<>>
          /\ ~st.lagged
          /\ st.live # <<>>
          /\ stream' = [stream EXCEPT ![s] = Some([st EXCEPT !.live = Tail(@)])]
          /\ got' = [got EXCEPT ![s] = Append(@,
                 [ m |-> Head(st.live),
                   expired |-> /\ IsSome(settings.retention_ttl)
                               /\ message_is_out_of_date(Head(st.live),
                                                         Unwrap(settings.retention_ttl)) ])]
    /\ UNCHANGED <<codec_vars, now, settings, compaction_map, retained_buffer, published, broker_vars>>

\* Time passes.
TopicTick ==
    /\ now < MaxTime
    /\ now' = now + 1
    /\ UNCHANGED <<codec_vars, topic_vars, broker_vars>>

\* The broker before any connection is accepted; nothing was written to any
\* stream.
BrokerInit ==
    /\ CodecNew
    /\ registry = [t \in Topics |-> None]
    /\ status = [c \in Conns |-> "new"]
    /\ running = [c \in Conns |-> FALSE]
    /\ pending = [c \in Conns |-> None]
    /\ inbox = [c \in Conns |-> <<>>]
    /\ pc = [c \in Conns |-> "recv"]
    /\ subscribed_on = [c \in Conns |-> {}]
    /\ buffer = [c \in Conns |-> <<>>]
    /\ dedup_map = [c \in Conns |-> [k \in KeyNames |-> None]]
    /\ waiting_for_next_message = [c \in Conns |-> FALSE]
    /\ sent = [c \in Conns |-> <<>>]
    /\ unacked = [c \in Conns |-> 0]
    /\ joined = [c \in Conns |-> 0]
    /\ sub_start = [c \in Conns |-> [t \in Topics |-> None]]
    /\ nframes = 0
    /\ npub = 0
    /\ wire = <<>>
    /\ lagged = [c \in Conns |-> FALSE]

\* TopicController::new
TopicInit ==
    /\ BrokerInit
    /\ workload = [name |-> "none", conns |-> {}, frames |-> {}, max_frames |-> 0,
                   max_time |-> 0, drops |-> FALSE,
                   max_inbox |-> MaxInbox, overflow |-> FALSE]
    /\ now = 0
    /\ settings \in {TopicSettingsNew(r, w, b) :
                        r \in TtlChoices, w \in WindowChoices, b \in BufferSizeChoices}
    /\ compaction_map = [k \in KeyNames |-> None]
    /\ retained_buffer = <<>>
    /\ stream = [s \in Subscribers |-> None]
    /\ published = <<>>
    /\ got = [s \in Subscribers |-> <<>>]

\* received_at is stamped before publish is called, at most MaxDelay earlier.
ReceivedAtChoices == {t \in 0..now : now - t <= MaxDelay}

TopicNext ==
    \/ \E key \in Keys, received_at \in ReceivedAtChoices : Publish(key, received_at)
    \/ \E s \in Subscribers : Subscribe(s)
    \/ \E s \in Subscribers : StreamNext(s)
    \/ TopicTick

TopicSpec == TopicInit /\ [][TopicNext]_vars


-----------------------------------------------------------------------------
(* TopicRegistry *)

\* The mutant of RegistrySettingsNew that takes 0 for a duration, not for
\* "disabled".
RegistrySettingsNewZeroEnabled(retention_ttl, dedup_ttl) ==
    [ retention_ttl |-> Some(retention_ttl), dedup_ttl |-> Some(dedup_ttl) ]

\* TopicSettings::new of the registry
RegistrySettingsNew(retention_ttl, dedup_ttl) ==
    [ retention_ttl |-> IF retention_ttl = 0 THEN None ELSE Some(retention_ttl),
      dedup_ttl     |-> IF dedup_ttl = 0 THEN None ELSE Some(dedup_ttl) ]

\* TopicRegistry::add_topic: HashMap::insert replaces the value of a key that
\* is already there.
add_topic(topics, topic, retention_ttl, dedup_ttl) ==
    [topics EXCEPT ![topic] = Some(RegistrySettingsNew(retention_ttl, dedup_ttl))]

-----------------------------------------------------------------------------
(* Frames, readers and the global broadcast (main.rs) *)

Frame(kind, topic, key, retention_ttl, dedup_ttl) ==
    [ kind |-> kind, topic |-> topic, key |-> key,
      retention_ttl |-> retention_ttl, dedup_ttl |-> dedup_ttl ]

CommitFrame == Frame("Commit", "", None, 0, 0)

CloseConnectionFrame == Frame("CloseConnection", "", None, 0, 0)

CreateTopicFrames ==
    {Frame("CreateTopic", t, None, r, d) : t \in Topics, r \in TtlChoices, d \in WindowChoices}

SubscribeFrames == {Frame("Subscribe", t, None, 0, 0) : t \in Topics}

UnsubscribeFrames == {Frame("Unsubscribe", t, None, 0, 0) : t \in Topics}

PublishFrames(keys) == {Frame("Publish", t, k, 0, 0) : t \in Topics, k \in keys}

\* The frames of a set that name one of the topics.
OnTopics(frames, topics) == {frame \in frames : frame.topic \in topics}

\* The workloads: which connections are accepted, which frames their clients
\* may send (any sequence of them, from any of the connections, in any
\* interleaving with the broker's tasks), how many frames in all, and how
\* far the clock runs.
\*   flow    one client subscribing, unsubscribing, publishing and committing;
\*   fanout  two clients that subscribe, publish and commit;
\*   timed   two clients creating topics with retention or deduplication,
\*           subscribing and publishing while time passes;
\*   leave   two clients that subscribe, publish, close and drop their
\*           connections;
\*   topics  one client subscribing to two topics, unsubscribing from one,
\*           publishing to both and committing.
\*   race    two clients creating a topic and subscribing to it, with
\*           managers that may be a frame behind the broadcast;
\*   lag     two clients that subscribe, publish and commit, with readers
\*           that send although a manager is as far behind as the channel
\*           is deep;
\*   expiry  one client creating a topic with retention, subscribing and
\*           publishing while time passes.
\* All but topics use the topic "a" only.
Workloads ==
    { [ name |-> "flow", conns |-> {1},
        frames |-> OnTopics(SubscribeFrames \cup UnsubscribeFrames
                            \cup PublishFrames({None}), {"a"})
                   \cup {CommitFrame},
        max_frames |-> FlowFrames, max_time |-> 0, drops |-> FALSE,
        max_inbox |-> MaxInbox, overflow |-> FALSE ],
      [ name |-> "fanout", conns |-> Conns,
        frames |-> OnTopics(SubscribeFrames \cup PublishFrames({None}), {"a"})
                   \cup {CommitFrame},
        max_frames |-> FanoutFrames, max_time |-> 1, drops |-> FALSE,
        max_inbox |-> MaxInbox, overflow |-> FALSE ],
      [ name |-> "timed", conns |-> Conns,
        frames |-> OnTopics(CreateTopicFrames \cup SubscribeFrames
                            \cup PublishFrames({None, Some("k1")}), {"a"}),
        max_frames |-> TimedFrames, max_time |-> MaxTime, drops |-> FALSE,
        max_inbox |-> MaxInbox, overflow |-> FALSE ],
      [ name |-> "leave", conns |-> Conns,
        frames |-> OnTopics(SubscribeFrames \cup PublishFrames({None}), {"a"})
                   \cup {CloseConnectionFrame},
        max_frames |-> LeaveFrames, max_time |-> 0, drops |-> TRUE,
        max_inbox |-> LeaveInbox, overflow |-> FALSE ],
      [ name |-> "topics", conns |-> {1},
        frames |-> SubscribeFrames \cup OnTopics(UnsubscribeFrames, {"a"})
                   \cup PublishFrames({None}) \cup {CommitFrame},
        max_frames |-> TopicsFrames, max_time |-> 0, drops |-> FALSE,
        max_inbox |-> MaxInbox, overflow |-> FALSE ],
      [ name |-> "race", conns |-> Conns,
        frames |-> OnTopics(CreateTopicFrames \cup SubscribeFrames, {"a"}),
        max_frames |-> RaceFrames, max_time |-> 0, drops |-> FALSE,
        max_inbox |-> RaceInbox, overflow |-> FALSE ],
      [ name |-> "lag", conns |-> Conns,
        frames |-> OnTopics(SubscribeFrames \cup PublishFrames({None}), {"a"})
                   \cup {CommitFrame},
        max_frames |-> LagFrames, max_time |-> 0, drops |-> FALSE,
        max_inbox |-> LagCapacity, overflow |-> TRUE ],
      [ name |-> "expiry", conns |-> {1},
        frames |-> { frame \in OnTopics(CreateTopicFrames, {"a"}) :
                        frame.retention_ttl # 0 /\ frame.dedup_ttl = 0 }
                   \cup OnTopics(SubscribeFrames \cup PublishFrames({None}), {"a"}),
        max_frames |-> ExpiryFrames, max_time |-> MaxTime, drops |-> FALSE,
        max_inbox |-> MaxInbox, overflow |-> FALSE ] }

\* FrameWrapper::new.  seq is history: it is filled in when the frame is sent
\* to the broadcast, with the frame's number among the Publish frames (for a
\* Publish) or the number of Publish frames sent before it (for the others).
FrameWrapperNew(frame, peer) ==
    [inner |-> frame, received_at |-> now, send_by |-> peer, seq |-> 0]

\* The listener accepts connection c: process() subscribes a receiver of the
\* global broadcast and spawns the SubscriptionManager.
Accept(c) ==
    /\ c \in workload.conns
    /\ status[c] = "new"
    /\ status' = [status EXCEPT ![c] = "open"]
    /\ running' = [running EXCEPT ![c] = TRUE]
    /\ joined' = [joined EXCEPT ![c] = npub]
    /\ UNCHANGED <<codec_vars, now, topic_vars, registry, pending, nframes, inbox, pc, subscribed_on,
                   buffer, dedup_map, waiting_for_next_message, sent, unacked, sub_start,
                   lagged, npub, wire, workload>>

\* The reader of connection c decodes a frame and wraps it, which stamps
\* received_at.  A client sends nothing after its CloseConnection.
ReaderWrap(c, frame) ==
    /\ status[c] = "open"
    /\ pending[c] = None
    /\ frame \in workload.frames
    /\ nframes < workload.max_frames
    /\ pending' = [pending EXCEPT ![c] = Some(FrameWrapperNew(frame, c))]
    /\ nframes' = nframes + 1
    /\ status' = IF frame.kind = "CloseConnection"
                 THEN [status EXCEPT ![c] = "closing"] ELSE status
    /\ UNCHANGED <<codec_vars, now, topic_vars, registry, inbox, manager_vars, lagged, joined, npub, wire,
                   workload>>

\* The mutant of BroadcastSendFrame that also queues the frame for
\* connections that are not accepted yet.
BroadcastSendFrameToAll(wrapped) ==
    [c \in Conns |-> IF running[c] \/ status[c] = "new"
                     THEN Append(inbox[c], wrapped) ELSE inbox[c]]

\* The frames of the channel that the receiver of connection c has not
\* read: a manager between the two locks of a Subscribe has read the frame
\* that is still the head of its inbox.
Unread(c) == IF pc[c] = "add" THEN Tail(inbox[c]) ELSE inbox[c]

\* The receiver of connection c has not read the oldest value that the
\* channel holds, which the next send overwrites.  max_inbox stands for the
\* capacity of broadcast::channel(1000).
Overrun(c) == running[c] /\ Len(Unread(c)) >= workload.max_inbox

\* broadcast.send: every receiver that exists gets the frame; a receiver
\* subscribed later does not.  A receiver that is overrun loses its oldest
\* unread frame.
BroadcastSendFrame(wrapped) ==
    [c \in Conns |-> IF running[c]
                     THEN IF Overrun(c)
                          THEN IF pc[c] = "add"
                               THEN <<Head(inbox[c])>> \o Append(Tail(Unread(c)), wrapped)
                               ELSE Append(Tail(inbox[c]), wrapped)
                          ELSE Append(inbox[c], wrapped)
                     ELSE inbox[c]]

\* The receivers that the send overruns are told so by their next recv.
MarkLagged == [c \in Conns |-> lagged[c] \/ Overrun(c)]

\* No receiver is as far behind as the channel is deep.  In the workloads
\* without overflow the readers are scheduled only then, which keeps every
\* manager within the capacity of the channel.
InboxRoom == \A c \in Conns : running[c] => Len(inbox[c]) < workload.max_inbox

\* Whether broadcast.send returns Ok: the channel has a receiver.
HasReceiver == \E c \in Conns : running[c]

\* The reader sends the wrapped frame to the global broadcast.
ReaderSend(c) ==
    /\ IsSome(pending[c])
    /\ HasReceiver
    /\ workload.overflow \/ InboxRoom
    /\ LET wrapped == Unwrap(pending[c])
           is_publish == wrapped.inner.kind = "Publish"
           numbered == [wrapped EXCEPT !.seq = IF is_publish THEN npub + 1 ELSE npub]
       IN /\ inbox' = BroadcastSendFrame(numbered)
          /\ npub' = IF is_publish THEN npub + 1 ELSE npub
          /\ wire' = IF is_publish THEN Append(wire, wrapped.inner) ELSE wire
    /\ lagged' = MarkLagged
    /\ pending' = [pending EXCEPT ![c] = None]
    /\ UNCHANGED <<codec_vars, now, topic_vars, registry, status, nframes, manager_vars, joined, workload>>

\* The reader sends a frame when the channel has no receiver left:
\* "broadcast.send(wrapped_frame).unwrap()" panics, which ends the task of
\* the connection without a CloseConnection.
ReaderPanic(c) ==
    /\ IsSome(pending[c])
    /\ ~HasReceiver
    /\ status' = [status EXCEPT ![c] = "panicked"]
    /\ pending' = [pending EXCEPT ![c] = None]
    /\ UNCHANGED <<codec_vars, now, topic_vars, registry, nframes, inbox, manager_vars, lagged, joined,
                   npub, wire, workload>>

\* The client's socket reaches EOF: the reader's loop ends and process()
\* sends a CloseConnection of its own ("let _ =": the result is ignored).
Disconnect(c) ==
    /\ workload.drops
    /\ status[c] \in {"open", "closing"}
    /\ pending[c] = None
    /\ workload.overflow \/ InboxRoom
    /\ status' = [status EXCEPT ![c] = "eof"]
    /\ inbox' = BroadcastSendFrame(
                    [FrameWrapperNew(CloseConnectionFrame, c) EXCEPT !.seq = npub])
    /\ lagged' = MarkLagged
    /\ UNCHANGED <<codec_vars, now, topic_vars, registry, pending, nframes, manager_vars, joined, npub,
                   wire, workload>>

-----------------------------------------------------------------------------
(* MessagesBuffer *)

\* MessagesBuffer::check_duplicate_and_update_dedup_map
check_duplicate_and_update_dedup_map(message, map, dedup_ttl) ==
    IF message.key = None
    THEN [dup |-> FALSE, map |-> map]
    ELSE LET key == Unwrap(message.key) IN
         IF IsSome(map[key])
         THEN LET since_last_seen == now - Unwrap(map[key]) IN
              IF since_last_seen < dedup_ttl
              THEN [dup |-> TRUE, map |-> map]
              ELSE [dup |-> FALSE, map |-> [map EXCEPT ![key] = Some(now)]]
         ELSE [dup |-> FALSE, map |-> [map EXCEPT ![key] = Some(now)]]

\* MessagesBuffer::queue_message
queue_message(messages, message) == Append(messages, message)

\* The mutant of next that returns the oldest message unfiltered.
next_unfiltered(messages, map, subscriptions, topics) ==
    IF messages = <<>>
    THEN [message |-> None, buffer |-> messages, dedup_map |-> map]
    ELSE [message |-> Some(Head(messages)), buffer |-> Tail(messages), dedup_map |-> map]

\* The mutant of next that stops at the first message it drops as out of
\* date.
RECURSIVE next_until_expired(_, _, _, _)
next_until_expired(messages, map, subscriptions, topics) ==
    IF messages = <<>>
    THEN [message |-> None, buffer |-> messages, dedup_map |-> map]
    ELSE LET message == Head(messages)
             maybe_topic_settings == topics[message.topic]
         IN IF maybe_topic_settings = None
            THEN next_until_expired(Tail(messages), map, subscriptions, topics)
            ELSE LET topic_settings == Unwrap(maybe_topic_settings)
                     not_interested_in == message.topic \notin subscriptions
                     out_of_date ==
                         /\ IsSome(topic_settings.retention_ttl)
                         /\ message_is_out_of_date(message,
                                                   Unwrap(topic_settings.retention_ttl))
                     checked ==
                         IF /\ ~not_interested_in
                            /\ ~out_of_date
                            /\ IsSome(topic_settings.dedup_ttl)
                         THEN check_duplicate_and_update_dedup_map(
                                  message, map, Unwrap(topic_settings.dedup_ttl))
                         ELSE [dup |-> FALSE, map |-> map]
                     is_duplicate == checked.dup
                 IN IF ~not_interested_in /\ out_of_date
                    THEN [message |-> None, buffer |-> Tail(messages), dedup_map |-> map]
                    ELSE IF not_interested_in \/ is_duplicate
                    THEN next_until_expired(Tail(messages), checked.map, subscriptions,
                                            topics)
                    ELSE [ message   |-> Some(message),
                           buffer    |-> Tail(messages),
                           dedup_map |-> checked.map ]

\* MessagesBuffer::next: pops messages until one is to be delivered.  Returns
\* that message (or None), what is left of the buffer and the dedup map.
RECURSIVE next(_, _, _, _)
next(messages, map, subscriptions, topics) ==
    IF messages = <<>>
    THEN [message |-> None, buffer |-> messages, dedup_map |-> map]
    ELSE LET message == Head(messages)
             maybe_topic_settings == topics[message.topic]
         IN IF maybe_topic_settings = None
            THEN next(Tail(messages), map, subscriptions, topics)
            ELSE LET topic_settings == Unwrap(maybe_topic_settings)
                     not_interested_in == message.topic \notin subscriptions
                     out_of_date ==
                         /\ IsSome(topic_settings.retention_ttl)
                         /\ message_is_out_of_date(message,
                                                   Unwrap(topic_settings.retention_ttl))
                     checked ==
                         IF /\ ~not_interested_in
                            /\ ~out_of_date
                            /\ IsSome(topic_settings.dedup_ttl)
                         THEN check_duplicate_and_update_dedup_map(
                                  message, map, Unwrap(topic_settings.dedup_ttl))
                         ELSE [dup |-> FALSE, map |-> map]
                     is_duplicate == checked.dup
                 IN IF not_interested_in \/ out_of_date \/ is_duplicate
                    THEN next(Tail(messages), checked.map, subscriptions, topics)
                    ELSE [ message   |-> Some(message),
                           buffer    |-> Tail(messages),
                           dedup_map |-> checked.map ]

-----------------------------------------------------------------------------
(* SubscriptionManager *)

\* The mutant of peer_is_me that lets a manager handle only the frames of
\* its own connection.
peer_is_sender(frame, peer) == frame.send_by = peer

\* The mutant of peer_is_me that lets no CloseConnection through.
peer_is_me_unless_closing(frame, peer) ==
    CASE frame.inner.kind = "Publish" -> TRUE
      [] frame.inner.kind = "CloseConnection" -> FALSE
      [] OTHER -> frame.send_by = peer

\* SubscriptionManager::peer_is_me
peer_is_me(frame, peer) ==
    IF frame.inner.kind = "Publish" THEN TRUE ELSE frame.send_by = peer

\* The manager's own state and the registry as one record, as the handler of
\* a frame takes and leaves them.
Local(c) ==
    [ registry      |-> registry,
      subscribed_on |-> subscribed_on[c],
      buffer        |-> buffer[c],
      waiting       |-> waiting_for_next_message[c],
      unacked       |-> unacked[c],
      sub_start     |-> sub_start[c],
      dedup_map     |-> dedup_map[c],
      sent          |-> sent[c] ]

\* The mutant of FirstSubscription that sets the flag on every Subscribe.
EverySubscription(l) == [l EXCEPT !.waiting = TRUE]

\* Subscribe: "if manager.subscribed_on.is_empty() { waiting = true }"
FirstSubscription(l) ==
    IF l.subscribed_on = {} THEN [l EXCEPT !.waiting = TRUE] ELSE l

\* Subscribe: subscribed_on.insert(topic, ...)
InsertSubscription(l, frame) ==
    [l EXCEPT !.subscribed_on = @ \cup {frame.inner.topic},
              !.sub_start[frame.inner.topic] = Some(frame.seq)]

\* The mutant of MessageOf that drops the key of the frame.
MessageWithoutKey(frame) ==
    [ id |-> frame.seq, topic |-> frame.inner.topic, key |-> None,
      received_at |-> frame.received_at ]

\* The Message that the Publish arm builds from a frame.
MessageOf(frame) ==
    [ id |-> frame.seq, topic |-> frame.inner.topic, key |-> frame.inner.key,
      received_at |-> frame.received_at ]

\* The mutant of HandlePublish that creates an absent topic with the
\* default settings.
HandlePublishCreating(l, frame) ==
    [l EXCEPT !.registry = IF @[frame.inner.topic] = None
                           THEN add_topic(@, frame.inner.topic, 0, 0) ELSE @,
              !.buffer = queue_message(@, MessageOf(frame))]

\* Publish: the message is queued in the manager's buffer, nothing else.
HandlePublish(l, frame) ==
    [l EXCEPT !.buffer = queue_message(@, MessageOf(frame))]

\* The match on frame.inner of start_loop, for a frame that peer_is_me lets
\* through (CloseConnection and a Subscribe that has to create its topic are
\* handled by the actions below).
HandleFrame(l, frame) ==
    LET inner == frame.inner IN
    CASE inner.kind = "CreateTopic" ->
            [l EXCEPT !.registry = add_topic(@, inner.topic,
                                             inner.retention_ttl, inner.dedup_ttl)]
      [] inner.kind = "Subscribe" ->
            InsertSubscription(FirstSubscription(l), frame)
      [] inner.kind = "Unsubscribe" ->
            [l EXCEPT !.subscribed_on = @ \ {inner.topic}]
      [] inner.kind = "Publish" -> HandlePublish(l, frame)
      [] inner.kind = "Commit" ->
            [l EXCEPT !.waiting = TRUE, !.unacked = 0]
      [] OTHER -> l

\* The mutant of Deliver that leaves the flag set after a write.
DeliverKeepsReady(c, l) ==
    LET popped == IF l.waiting
                  THEN next(l.buffer, l.dedup_map, l.subscribed_on, l.registry)
                  ELSE [message |-> None, buffer |-> l.buffer, dedup_map |-> l.dedup_map]
        written == IsSome(popped.message) /\ status[c] # "eof"
    IN [l EXCEPT !.buffer = popped.buffer,
                 !.dedup_map = popped.dedup_map,
                 !.sent = IF written THEN Append(@, Unwrap(popped.message)) ELSE @,
                 !.unacked = IF written THEN @ + 1 ELSE @]

\* The mutant of Deliver that clears the flag also when the write fails.
DeliverClearsOnError(c, l) ==
    LET popped == IF l.waiting
                  THEN next(l.buffer, l.dedup_map, l.subscribed_on, l.registry)
                  ELSE [message |-> None, buffer |-> l.buffer, dedup_map |-> l.dedup_map]
        written == IsSome(popped.message) /\ status[c] # "eof"
    IN [l EXCEPT !.buffer = popped.buffer,
                 !.dedup_map = popped.dedup_map,
                 !.waiting = IF IsSome(popped.message) THEN FALSE ELSE @,
                 !.sent = IF written THEN Append(@, Unwrap(popped.message)) ELSE @,
                 !.unacked = IF written THEN @ + 1 ELSE @]

\* The end of an iteration of start_loop: if the client waits for a message
\* and the buffer has one for it, write it.  The write fails when the client
\* is gone; the message is lost then and the flag is left as it is.
Deliver(c, l) ==
    LET popped == IF l.waiting
                  THEN next(l.buffer, l.dedup_map, l.subscribed_on, l.registry)
                  ELSE [message |-> None, buffer |-> l.buffer, dedup_map |-> l.dedup_map]
        written == IsSome(popped.message) /\ status[c] # "eof"
    IN [l EXCEPT !.buffer = popped.buffer,
                 !.dedup_map = popped.dedup_map,
                 !.waiting = IF written THEN FALSE ELSE @,
                 !.sent = IF written THEN Append(@, Unwrap(popped.message)) ELSE @,
                 !.unacked = IF written THEN @ + 1 ELSE @]

\* The manager's state and the registry after the delivery.
DeliverAndStore(c, l) ==
    \E done \in {Deliver(c, l)} :
       /\ registry' = done.registry
       /\ subscribed_on' = [subscribed_on EXCEPT ![c] = done.subscribed_on]
       /\ sub_start' = [sub_start EXCEPT ![c] = done.sub_start]
       /\ buffer' = [buffer EXCEPT ![c] = done.buffer]
       /\ dedup_map' = [dedup_map EXCEPT ![c] = done.dedup_map]
       /\ waiting_for_next_message' = [waiting_for_next_message EXCEPT ![c] = done.waiting]
       /\ sent' = [sent EXCEPT ![c] = done.sent]
       /\ unacked' = [unacked EXCEPT ![c] = done.unacked]

\* One iteration of "while let Ok(frame) = broadcast_receiver.recv().await".
ManagerStep(c) ==
    /\ running[c]
    /\ pc[c] = "recv"
    /\ ~lagged[c]
    /\ inbox[c] # <<>>
    /\ LET frame == Head(inbox[c])
           me == peer_is_me(frame, c)
       IN \/ \* CloseConnection: break; the receiver is dropped with the manager.
             /\ me /\ frame.inner.kind = "CloseConnection"
             /\ running' = [running EXCEPT ![c] = FALSE]
             /\ inbox' = [inbox EXCEPT ![c] = <<>>]
             /\ UNCHANGED <<registry, pc, subscribed_on, buffer, dedup_map,
                            waiting_for_next_message, sent, unacked, sub_start>>
          \/ \* Subscribe to a topic the registry lacks: the read lock is
             \* released before the write lock of add_topic is taken.
             /\ me /\ frame.inner.kind = "Subscribe"
             /\ registry[frame.inner.topic] = None
             /\ waiting_for_next_message' =
                    [waiting_for_next_message EXCEPT ![c] = FirstSubscription(Local(c)).waiting]
             /\ pc' = [pc EXCEPT ![c] = "add"]
             /\ UNCHANGED <<registry, running, inbox, subscribed_on, buffer, dedup_map,
                            sent, unacked, sub_start>>
          \/ /\ me
             /\ frame.inner.kind # "CloseConnection"
             /\ ~(frame.inner.kind = "Subscribe" /\ registry[frame.inner.topic] = None)
             /\ DeliverAndStore(c, HandleFrame(Local(c), frame))
             /\ inbox' = [inbox EXCEPT ![c] = Tail(@)]
             /\ UNCHANGED <<running, pc>>
          \/ \* A frame of another peer: nothing is handled, the delivery runs.
             /\ ~me
             /\ DeliverAndStore(c, Local(c))
             /\ inbox' = [inbox EXCEPT ![c] = Tail(@)]
             /\ UNCHANGED <<running, pc>>
    /\ UNCHANGED <<codec_vars, now, topic_vars, reader_vars, lagged, joined, npub, wire, workload>>

\* recv returns Err(RecvError::Lagged) to a receiver that was overrun: the
\* "while let Ok(frame)" of start_loop ends, and the manager is dropped with
\* its receiver and the write half of the socket.
ManagerLagged(c) ==
    /\ running[c]
    /\ pc[c] = "recv"
    /\ lagged[c]
    /\ running' = [running EXCEPT ![c] = FALSE]
    /\ inbox' = [inbox EXCEPT ![c] = <<>>]
    /\ lagged' = [lagged EXCEPT ![c] = FALSE]
    /\ UNCHANGED <<codec_vars, now, topic_vars, registry, reader_vars, pc, subscribed_on, buffer,
                   dedup_map, waiting_for_next_message, sent, unacked, sub_start, joined,
                   npub, wire, workload>>

\* The rest of Subscribe for a topic the registry lacked when it was looked
\* up: add_topic(topic, 0, 0), then the insertion and the delivery.
ManagerSubscribeAdd(c) ==
    /\ running[c]
    /\ pc[c] = "add"
    /\ LET frame == Head(inbox[c])
           created == [Local(c) EXCEPT !.registry = add_topic(@, frame.inner.topic, 0, 0)]
       IN DeliverAndStore(c, InsertSubscription(created, frame))
    /\ inbox' = [inbox EXCEPT ![c] = Tail(@)]
    /\ pc' = [pc EXCEPT ![c] = "recv"]
    /\ UNCHANGED <<codec_vars, now, topic_vars, reader_vars, running, lagged, joined, npub, wire,
                   workload>>

\* Time passes.
Tick ==
    /\ now < workload.max_time
    /\ now' = now + 1
    /\ UNCHANGED <<codec_vars, topic_vars, broker_vars>>

\* No topic controller is exercised by the broker's loop: its variables stay
\* as TopicController::new leaves them.
Init ==
    /\ BrokerInit
    /\ workload \in Workloads
    /\ now = 0
    /\ settings = TopicSettingsNew(0, 0, 0)
    /\ compaction_map = [k \in KeyNames |-> None]
    /\ retained_buffer = <<>>
    /\ stream = [s \in Subscribers |-> None]
    /\ published = <<>>
    /\ got = [s \in Subscribers |-> <<>>]

Next ==
    \/ \E c \in Conns : Accept(c)
    \/ \E c \in Conns, frame \in workload.frames : ReaderWrap(c, frame)
    \/ \E c \in Conns : ReaderSend(c)
    \/ \E c \in Conns : ReaderPanic(c)
    \/ \E c \in Conns : Disconnect(c)
    \/ \E c \in Conns : ManagerStep(c)
    \/ \E c \in Conns : ManagerLagged(c)
    \/ \E c \in Conns : ManagerSubscribeAdd(c)
    \/ Tick

Spec == Init /\ [][Next]_vars

-----------------------------------------------------------------------------
(* The broker with clients that commit what they read, and fair scheduling *)

\* Two clients that subscribe and publish; none unsubscribes or leaves.
\* The topics that the clients of the fair specification use.
LiveTopics == {"a"}

LiveWorkload ==
    [ name |-> "live", conns |-> Conns,
      frames |-> OnTopics(SubscribeFrames \cup PublishFrames({None}), LiveTopics),
      max_frames |-> LiveFrames, max_time |-> 0, drops |-> FALSE,
        max_inbox |-> MaxInbox, overflow |-> FALSE ]

\* A Commit of client c is on its way to c's manager.
CommitOutstanding(c) ==
    \/ pending[c] = Some(FrameWrapperNew(CommitFrame, c))
    \/ \E i \in DOMAIN inbox[c] :
          inbox[c][i].inner = CommitFrame /\ inbox[c][i].send_by = c

\* The client of connection c has read the frame written to it and answers
\* with a Commit (Client::commit in lib.rs); the reader wraps it.
ReadAndCommit(c) ==
    /\ status[c] = "open"
    /\ pending[c] = None
    /\ unacked[c] > 0
    /\ ~CommitOutstanding(c)
    /\ pending' = [pending EXCEPT ![c] = Some(FrameWrapperNew(CommitFrame, c))]
    /\ UNCHANGED <<codec_vars, now, topic_vars, registry, status, nframes, inbox, manager_vars, lagged,
                   joined, npub, wire, workload>>

LiveInit ==
    /\ BrokerInit
    /\ workload = LiveWorkload
    /\ now = 0
    /\ settings = TopicSettingsNew(0, 0, 0)
    /\ compaction_map = [k \in KeyNames |-> None]
    /\ retained_buffer = <<>>
    /\ stream = [s \in Subscribers |-> None]
    /\ published = <<>>
    /\ got = [s \in Subscribers |-> <<>>]

LiveNext ==
    \/ \E c \in Conns : Accept(c)
    \/ \E c \in Conns, frame \in workload.frames : ReaderWrap(c, frame)
    \/ \E c \in Conns : ReaderSend(c)
    \/ \E c \in Conns : ReadAndCommit(c)
    \/ \E c \in Conns : ManagerStep(c)
    \/ \E c \in Conns : ManagerSubscribeAdd(c)

\* The runtime schedules every spawned task that can make progress: a manager
\* with a frame to receive handles it, a reader with a wrapped frame sends
\* it; and the clients commit what they read.
Fairness ==
    \A c \in Conns :
        /\ WF_vars(ManagerStep(c))
        /\ WF_vars(ManagerSubscribeAdd(c))
        /\ WF_vars(ReaderSend(c))
        /\ WF_vars(ReadAndCommit(c))

LiveSpec == LiveInit /\ [][LiveNext]_vars /\ Fairness

-----------------------------------------------------------------------------
(* The broker with clients that leave, and fair scheduling *)

\* Two clients that subscribe and publish, send CloseConnection and drop
\* their connections.
CloseWorkload ==
    [ name |-> "close", conns |-> Conns,
      frames |-> OnTopics(SubscribeFrames \cup PublishFrames({None}), {"a"})
                 \cup {CloseConnectionFrame},
      max_frames |-> CloseFrames, max_time |-> 0, drops |-> TRUE,
      max_inbox |-> LeaveInbox, overflow |-> FALSE ]

CloseInit ==
    /\ BrokerInit
    /\ workload = CloseWorkload
    /\ now = 0
    /\ settings = TopicSettingsNew(0, 0, 0)
    /\ compaction_map = [k \in KeyNames |-> None]
    /\ retained_buffer = <<>>
    /\ stream = [s \in Subscribers |-> None]
    /\ published = <<>>
    /\ got = [s \in Subscribers |-> <<>>]

CloseNext ==
    \/ \E c \in Conns : Accept(c)
    \/ \E c \in Conns, frame \in workload.frames : ReaderWrap(c, frame)
    \/ \E c \in Conns : ReaderSend(c)
    \/ \E c \in Conns : Disconnect(c)
    \/ \E c \in Conns : ManagerStep(c)
    \/ \E c \in Conns : ManagerSubscribeAdd(c)

\* The runtime schedules every spawned task that can make progress; when a
\* client drops its connection is up to the client.
CloseFairness ==
    \A c \in Conns :
        /\ WF_vars(ManagerStep(c))
        /\ WF_vars(ManagerSubscribeAdd(c))
        /\ WF_vars(ReaderSend(c))

CloseSpec == CloseInit /\ [][CloseNext]_vars /\ CloseFairness

-----------------------------------------------------------------------------
(* One TopicController whose subscriber may send Subscribe for the topic   *)
(* again: the manager inserts a fresh stream under the same name.          *)

\* The map would keep the pending items of the stream it held under the name
\* ahead of the fresh stream.
StreamMapInsertKeepingOld(old, fresh) ==
    [fresh EXCEPT !.snapshot = old.snapshot \o old.live \o @]

\* StreamMap::insert under a name the map already holds: the stream the map
\* holds under the name afterwards.  The new stream replaces the old one,
\* which is dropped with its receiver.
StreamMapInsert(old, fresh) == fresh

\* subscribed_on.insert(topic, topic_controller.subscribe()) for a subscriber
\* that already has a stream of the topic.
SubscribeAgain(s) ==
    /\ IsSome(stream[s])
    /\ Unwrap(stream[s]).nth <= MaxResubscribe
    /\ stream' = [stream EXCEPT ![s] =
           Some(StreamMapInsert(Unwrap(stream[s]),
                [ snapshot |-> Snapshot(retained_buffer),
                  live     |-> <<>>,
                  lagged   |-> FALSE,
                  missed   |-> FALSE,
                  sub_at   |-> now,
                  start    |-> Len(published),
                  snap0    |-> Snapshot(retained_buffer),
                  nth      |-> Unwrap(stream[s]).nth + 1,
                  got0     |-> Len(got[s]) ]))]
    /\ UNCHANGED <<codec_vars, now, settings, compaction_map, retained_buffer, published, got,
                   broker_vars>>

\* The topic does not compact and its messages have no key.
ResubInit ==
    /\ TopicInit
    /\ settings.compaction_window = None

ResubNext ==
    \/ \E received_at \in ReceivedAtChoices : Publish(None, received_at)
    \/ \E s \in Subscribers : Subscribe(s)
    \/ \E s \in Subscribers : SubscribeAgain(s)
    \/ \E s \in Subscribers : StreamNext(s)
    \/ TopicTick

ResubSpec == ResubInit /\ [][ResubNext]_vars

-----------------------------------------------------------------------------
(* The broker with one client that creates both topics with a dedup_ttl,   *)
(* subscribes to them and publishes with one key on both.                  *)

DedupWorkload ==
    [ name |-> "dedup", conns |-> {1},
      frames |-> { frame \in CreateTopicFrames :
                      frame.retention_ttl = 0 /\ frame.dedup_ttl # 0 }
                 \cup SubscribeFrames \cup PublishFrames({Some("k1")})
                 \cup {CommitFrame},
      max_frames |-> DedupFrames, max_time |-> 0, drops |-> FALSE,
      max_inbox |-> MaxInbox, overflow |-> FALSE ]

DedupInit ==
    /\ BrokerInit
    /\ workload = DedupWorkload
    /\ now = 0
    /\ settings = TopicSettingsNew(0, 0, 0)
    /\ compaction_map = [k \in KeyNames |-> None]
    /\ retained_buffer = <<>>
    /\ stream = [s \in Subscribers |-> None]
    /\ published = <<>>
    /\ got = [s \in Subscribers |-> <<>>]

DedupNext ==
    \/ \E c \in Conns : Accept(c)
    \/ \E c \in Conns, frame \in workload.frames : ReaderWrap(c, frame)
    \/ \E c \in Conns : ReaderSend(c)
    \/ \E c \in Conns : ManagerStep(c)
    \/ \E c \in Conns : ManagerSubscribeAdd(c)

DedupSpec == DedupInit /\ [][DedupNext]_vars

-----------------------------------------------------------------------------
(* ZaichikCodec alone: one side encodes frames into a stream, the other    *)
(* reads the stream in pieces of any size and calls decode.  The broker    *)
(* and the topic controller stay as they are constructed.                  *)

CodecInit ==
    /\ BrokerInit
    /\ workload = [name |-> "none", conns |-> {}, frames |-> {}, max_frames |-> 0,
                   max_time |-> 0, drops |-> FALSE,
                   max_inbox |-> MaxInbox, overflow |-> FALSE]
    /\ now = 0
    /\ settings = TopicSettingsNew(0, 0, 0)
    /\ compaction_map = [k \in KeyNames |-> None]
    /\ retained_buffer = <<>>
    /\ stream = [s \in Subscribers |-> None]
    /\ published = <<>>
    /\ got = [s \in Subscribers |-> <<>>]

CodecNext ==
    \/ /\ \E item \in CodecFrames : CodecEncode(item)
       /\ UNCHANGED <<now, topic_vars, broker_vars>>
    \/ /\ \E n \in 1..Len(tcp) : SocketRead(n)
       /\ UNCHANGED <<now, topic_vars, broker_vars>>
    \/ /\ CodecDecode
       /\ UNCHANGED <<now, topic_vars, broker_vars>>

CodecSpec == CodecInit /\ [][CodecNext]_vars


-----------------------------------------------------------------------------
(* Properties of the TopicController (checked under TopicSpec). *)

\* The publishes that were forwarded (not suppressed as duplicates).
Forwarded == SelectSeq(published, LAMBDA p : ~p.dup)

Ids(messages) == {messages[i].id : i \in DOMAIN messages}

Increasing(messages) ==
    \A i, j \in DOMAIN messages : i < j => messages[i].id < messages[j].id

\* Everything stream s has yielded and has still to yield, in order.
StreamAll(s) ==
    LET st == Unwrap(stream[s]) IN
    [i \in DOMAIN got[s] |-> got[s][i].m] \o st.snapshot \o st.live

\* C2: per-topic FIFO.  The messages a subscriber's stream yields, replayed
\* and live, are in the order in which their publishes were applied to the
\* topic (id is the position of the publish in that order).
C2_PerTopicFifo ==
    \A s \in Subscribers : IsSome(stream[s]) => Increasing(StreamAll(s))

\* A stream has yielded a replayed message and then a live one.
C2_Witness ==
    \E s \in Subscribers :
        /\ IsSome(stream[s])
        /\ Len(got[s]) >= 2
        /\ got[s][1].m.id <= Unwrap(stream[s]).start
        /\ got[s][Len(got[s])].m.id > Unwrap(stream[s]).start


SameKey(p, q) == IsSome(p.m.key) /\ p.m.key = q.m.key

Distance(a, b) == IF a >= b THEN a - b ELSE b - a

\* Whether message id is still held anywhere: in the retained buffer or in a
\* stream (yielded or waiting to be yielded).
Held(id) ==
    \/ id \in Ids(retained_buffer)
    \/ \E s \in Subscribers : IsSome(stream[s]) /\ id \in Ids(StreamAll(s))

\* C4 as stated: of two publishes with the same non-empty key whose
\* received_at differ by less than the compaction window, only the earlier
\* one can be forwarded: the later one is never forwarded and never retained.
C4_CompactionByReceivedAt ==
    IsSome(settings.compaction_window) =>
        \A i, j \in DOMAIN published :
            ( /\ i < j
              /\ SameKey(published[i], published[j])
              /\ Distance(published[i].m.received_at, published[j].m.received_at)
                    < Unwrap(settings.compaction_window) )
            => (published[j].dup /\ ~Held(published[j].m.id))

\* C4 as amended: a publish with a non-empty key is suppressed exactly when a
\* publish with the same key was forwarded less than the compaction window
\* before it, measured on the broker's clock at the moment each publish is
\* handled; a suppressed publish is neither forwarded nor retained.
C4_CompactionByHandlingTime ==
    IsSome(settings.compaction_window) =>
        \A j \in DOMAIN published :
            /\ IsSome(published[j].m.key) =>
                 ( published[j].dup <=>
                     \E i \in 1..(j - 1) :
                         /\ SameKey(published[i], published[j])
                         /\ ~published[i].dup
                         /\ published[j].at - published[i].at
                                < Unwrap(settings.compaction_window) )
            /\ published[j].dup => ~Held(published[j].m.id)

\* A key was forwarded, then suppressed, then forwarded again once the window
\* of the forwarded publish had run out.
C4_Witness ==
    /\ IsSome(settings.compaction_window)
    /\ \E i, j, k \in DOMAIN published :
          /\ i < j /\ j < k
          /\ SameKey(published[i], published[j])
          /\ SameKey(published[j], published[k])
          /\ ~published[i].dup /\ published[j].dup /\ ~published[k].dup

\* The replayed messages stream s has handed to its client.
Replayed(s) ==
    SelectSeq(got[s], LAMBDA e : e.m.id <= Unwrap(stream[s]).start /\ ~e.expired)

C8_SeamExactlyOnce ==
    \A s \in Subscribers : (IsSome(stream[s]) /\ ~Unwrap(stream[s]).missed) =>
        LET st == Unwrap(stream[s])
            all == StreamAll(s)
        IN /\ \A i, j \in DOMAIN all : all[i].id = all[j].id => i = j
           /\ \A i \in DOMAIN published :
                  ( /\ ~published[i].dup
                    /\ \/ i > st.start
                       \/ /\ IsSome(published[i].m.expires_at)
                          /\ Unwrap(published[i].m.expires_at) > st.sub_at )
                  => published[i].m.id \in Ids(all)

\* A stream of a retaining topic has yielded its whole snapshot and a message
\* published after it subscribed.
C8_Witness ==
    /\ IsSome(settings.retention_ttl)
    /\ \E s \in Subscribers :
          /\ IsSome(stream[s])
          /\ Unwrap(stream[s]).snap0 # <<>>
          /\ Unwrap(stream[s]).snapshot = <<>>
          /\ \E i \in DOMAIN got[s] : got[s][i].m.id > Unwrap(stream[s]).start

-----------------------------------------------------------------------------
(* Properties of the broker's loop (checked under Spec and LiveSpec). *)

Delivered(c, id) == \E i \in DOMAIN sent[c] : sent[c][i].id = id

\* A step that writes a Publish frame to connection c.
Writes(c) == Len(sent'[c]) = Len(sent[c]) + 1

LastWritten(c) == sent'[c][Len(sent'[c])]

\* C1: on every connection at most one written Publish frame is uncommitted:
\* the manager has handled a Commit of the client between any two frames it
\* writes to it (unacked counts the frames written since the last Commit the
\* manager handled).
C1_AtMostOneInFlight == \A c \in Conns : unacked[c] <= 1

\* C3: the messages of one topic written to one connection have
\* non-decreasing received_at, whatever the interleaving of the publishers.
C3_ReceivedAtNonDecreasing ==
    \A c \in Conns : \A i, j \in DOMAIN sent[c] :
        (i < j /\ sent[c][i].topic = sent[c][j].topic)
            => sent[c][i].received_at <= sent[c][j].received_at

\* C6: no step changes the settings of a topic that the registry already
\* has; in particular a later CreateTopic changes nothing.
C6_IdempotentCreation ==
    [][\A t \in Topics : IsSome(registry[t]) => registry'[t] = registry[t]]_vars

\* C7: a message written to a client has not expired: on a topic with
\* retention its expires_at (received_at + retention_ttl) is later than now,
\* the boundary expires_at = now counting as expired.
C7_ExpiryAtDelivery ==
    [][\A c \in Conns :
         Writes(c) =>
            LET message == LastWritten(c)
                topic_settings == Unwrap(registry'[message.topic])
            IN IsSome(topic_settings.retention_ttl)
                 => message.received_at + Unwrap(topic_settings.retention_ttl) > now]_vars

C10_FlowControlLiveness ==
    /\ [](\A c \in Conns : Increasing(sent[c]))
    /\ \A c \in Conns : \A id \in 1..LiveFrames : \A t \in LiveTopics :
          (/\ IsSome(sub_start[c][t])
           /\ Unwrap(sub_start[c][t]) < id
           /\ id <= npub)
             ~> Delivered(c, id)

\* A connection has been written two messages published after its
\* subscription, the second after its Commit for the first.
C10_Witness ==
    \E c \in Conns : \E t \in Topics :
        /\ IsSome(sub_start[c][t])
        /\ \E i, j \in DOMAIN sent[c] :
              /\ i < j
              /\ sent[c][i].id > Unwrap(sub_start[c][t])
              /\ sent[c][j].id > sent[c][i].id
        /\ unacked[c] = 1

-----------------------------------------------------------------------------
(* Properties of the handlers of the loop (checked under Spec). *)

\* A step in which the manager of connection c finishes the iteration for a
\* frame of the given kind that its own client sent.
Handles(c, kind) ==
    /\ running[c]
    /\ ~lagged[c] \/ pc[c] = "add"
    /\ inbox[c] # <<>>
    /\ Head(inbox[c]).inner.kind = kind
    /\ Head(inbox[c]).send_by = c
    /\ inbox'[c] = Tail(inbox[c])

\* C11: after an Unsubscribe that removes the connection's last subscription,
\* waiting_for_next_message is false.
C11_UnsubscribeClearsReadiness ==
    [][\A c \in Conns :
         (Handles(c, "Unsubscribe") /\ subscribed_on[c] # {} /\ subscribed_on'[c] = {})
             => ~waiting_for_next_message'[c]]_vars

\* C12: a message written to a connection is of a topic the connection is
\* subscribed to when it is written; so nothing of a topic is written
\* between the handling of an Unsubscribe for it and the next Subscribe.
C12_OnlySubscribedTopics ==
    [][\A c \in Conns : Writes(c) => LastWritten(c).topic \in subscribed_on'[c]]_vars

\* A connection that unsubscribed from "a" has been written a message of
\* "b" although the message published just before it, when the connection
\* had subscribed to both topics, was not written: that one was of "a" and
\* was passed over.
C12_Witness ==
    \E c \in Conns : \E i \in DOMAIN sent[c] :
        LET id == sent[c][i].id IN
        /\ sent[c][i].topic = "b"
        /\ "a" \notin subscribed_on[c]
        /\ IsSome(sub_start[c]["a"]) /\ Unwrap(sub_start[c]["a"]) < id - 1
        /\ IsSome(sub_start[c]["b"]) /\ Unwrap(sub_start[c]["b"]) < id - 1
        /\ ~Delivered(c, id - 1)

\* The manager's state after one iteration of the loop for a Commit of its
\* own client.
CommitIteration(c, l) == Deliver(c, HandleFrame(l, FrameWrapperNew(CommitFrame, c)))

C14_FirstSubscriptionSetsReady ==
    [][\A c \in Conns :
         Handles(c, "Subscribe") =>
            IF subscribed_on[c] = {}
            THEN waiting_for_next_message'[c] = ~Writes(c)
            ELSE /\ waiting_for_next_message'[c] = waiting_for_next_message[c]
                 /\ sent'[c] = sent[c]]_vars

\* A connection with a written, uncommitted message and a buffered message
\* behind it has subscribed to a second topic: the buffered message stays
\* where it is.
C14_Witness ==
    \E c \in Conns : \E t \in Topics :
        /\ subscribed_on[c] = Topics
        /\ unacked[c] = 1
        /\ ~waiting_for_next_message[c]
        /\ buffer[c] # <<>>
        /\ IsSome(sub_start[c][t])
        /\ Unwrap(sub_start[c][t]) >= Head(buffer[c]).id

\* Retention and deduplication both disabled.
Disabled == [retention_ttl |-> None, dedup_ttl |-> None]

\* C15: a Subscribe whose lookup found the name absent from the registry
\* leaves the registry with the name, retention and deduplication both
\* disabled; a Subscribe whose lookup found the name leaves the registry as
\* it is.
C15_AutoCreateOnSubscribe ==
    [][\A c \in Conns :
         Handles(c, "Subscribe") =>
            LET topic == Head(inbox[c]).inner.topic IN
            IF pc[c] = "add"
            THEN /\ registry'[topic] = Some(Disabled)
                 /\ \A other \in Topics \ {topic} : registry'[other] = registry[other]
            ELSE IsSome(registry[topic]) /\ registry' = registry]_vars

\* Where no client creates topics, a connection is subscribed to a topic
\* that its Subscribe created.
C15_Witness ==
    /\ workload.frames \cap CreateTopicFrames = {}
    /\ \E c \in Conns : \E t \in subscribed_on[c] : registry[t] = Some(Disabled)

\* A step in which the manager of connection c finishes the iteration for a
\* Publish frame of the broadcast (whoever sent it).
HandlesPublish(c) ==
    /\ running[c]
    /\ ~lagged[c]
    /\ inbox[c] # <<>>
    /\ Head(inbox[c]).inner.kind = "Publish"
    /\ inbox'[c] = Tail(inbox[c])

\* C16 as stated: handling a Publish for a name absent from the registry
\* registers the name with retention and deduplication disabled; for a name
\* that is present the registry is unchanged.
C16_AutoCreateOnPublish ==
    [][\A c \in Conns :
         HandlesPublish(c) =>
            LET topic == Head(inbox[c]).inner.topic IN
            registry' = IF registry[topic] = None
                        THEN [registry EXCEPT ![topic] = Some(Disabled)]
                        ELSE registry]_vars

\* C16 as the code has it: handling a Publish never changes the registry;
\* a message for an absent name is queued like any other, and a manager
\* whose client waits pops and discards it while the name is absent.
C16_PublishLeavesRegistry ==
    [][\A c \in Conns :
         HandlesPublish(c) =>
            LET topic == Head(inbox[c]).inner.topic IN
            /\ registry' = registry
            /\ registry[topic] = None =>
                  IF waiting_for_next_message[c]
                  THEN sent'[c] = sent[c] /\ buffer'[c] = <<>>
                  ELSE buffer'[c] = Append(buffer[c], MessageOf(Head(inbox[c])))]_vars

\* A manager holds a message of a topic that the registry does not have.
C16_Witness ==
    \E c \in Conns : \E i \in DOMAIN buffer[c] : registry[buffer[c][i].topic] = None

\* C17: when the add_topic of a Subscribe is applied to a name that another
\* connection's CreateTopic has registered since the Subscribe looked the
\* name up, the settings that were applied first stay.
C17_FirstCreationWins ==
    [][\A c \in Conns :
         (running[c] /\ pc[c] = "add" /\ pc'[c] = "recv") =>
            LET topic == Head(inbox[c]).inner.topic IN
            IsSome(registry[topic]) => registry'[topic] = registry[topic]]_vars

\* C18: every Publish frame written to a connection carries the topic and
\* the key of the Publish frame that was sent to the broadcast under the same
\* number (the number stands for the payload, which no step of the broker
\* reads or changes), and no publish is written twice to one connection.
C18_ContentPreserved ==
    \A c \in Conns : \A i \in DOMAIN sent[c] :
        LET message == sent[c][i] IN
        /\ message.id \in DOMAIN wire
        /\ message.topic = wire[message.id].topic
        /\ message.key = wire[message.id].key
        /\ \A j \in DOMAIN sent[c] : sent[c][j].id = message.id => j = i

\* A connection has been written a keyed message, and one whose topic or key
\* differs from that of the first publish.
C18_Witness ==
    \E c \in Conns : \E i \in DOMAIN sent[c] :
        LET message == sent[c][i] IN
        /\ message.id >= 2
        /\ message.key # None
        /\ wire[1].key # message.key

(* Properties of the compaction check (checked under TopicSpec). *)

\* A step that applies a publish, and the publish it applies.
PublishStep == Len(published') = Len(published) + 1

LastPublished == published'[Len(published')]

\* The publish applied by the step has key k, for which the map of a topic
\* with compaction holds an instant.
PublishOfStoredKey(k) ==
    /\ PublishStep
    /\ IsSome(settings.compaction_window)
    /\ LastPublished.m.key = Some(k)
    /\ IsSome(compaction_map[k])

\* C19: a publish whose key has a stored instant t with now - t less than the
\* compaction window is a duplicate: no receiver of the broadcast channel
\* gets it, it is not in the retained buffer afterwards, and the stored
\* instant of its key stays t.
C19_DuplicateIsDropped ==
    [][\A k \in KeyNames :
          ( /\ PublishOfStoredKey(k)
            /\ now - Unwrap(compaction_map[k]) < Unwrap(settings.compaction_window) )
          => ( /\ stream' = stream
               /\ LastPublished.m.id \notin Ids(retained_buffer')
               /\ compaction_map'[k] = compaction_map[k] )]_vars

\* On a topic with retention, a subscriber that was there from the start has
\* been sent the first and the third publish of a key but not the second, a
\* duplicate handled after the first; the third was handled less than the
\* window after the duplicate, which did not extend the window.
C19_Witness ==
    /\ IsSome(settings.compaction_window)
    /\ IsSome(settings.retention_ttl)
    /\ Len(published) = 3
    /\ SameKey(published[1], published[2])
    /\ SameKey(published[2], published[3])
    /\ ~published[1].dup /\ published[2].dup /\ ~published[3].dup
    /\ published[1].at < published[2].at
    /\ published[3].at - published[2].at < Unwrap(settings.compaction_window)
    /\ \E s \in Subscribers :
          /\ IsSome(stream[s])
          /\ Unwrap(stream[s]).start = 0
          /\ Ids(StreamAll(s)) = {1, 3}

\* Every stream that exists has the publish of the step as its newest
\* message.
ForwardedToAll ==
    \A s \in Subscribers : IsSome(stream[s]) =>
        LET live == Unwrap(stream'[s]).live IN
        live # <<>> /\ live[Len(live)] = LastPublished.m

\* C20: on a topic with compaction, a publish whose key has a stored instant
\* t with now - t at least the window (exactly the window included), or
\* whose key has no stored instant, is forwarded to every receiver and leaves
\* now as the stored instant of its key.
C20_WindowBoundary ==
    [][\A k \in KeyNames :
          ( /\ PublishStep
            /\ IsSome(settings.compaction_window)
            /\ LastPublished.m.key = Some(k)
            /\ \/ compaction_map[k] = None
               \/ now - Unwrap(compaction_map[k]) >= Unwrap(settings.compaction_window) )
          => ( /\ ForwardedToAll
               /\ compaction_map'[k] = Some(now) )]_vars

\* A subscriber that was there from the start has been sent two publishes
\* of one key, the first when the key was not in the map and the second
\* exactly one window later, and the map holds the instant of the second.
C20_Witness ==
    /\ IsSome(settings.compaction_window)
    /\ Len(published) = 2
    /\ SameKey(published[1], published[2])
    /\ published[2].at - published[1].at = Unwrap(settings.compaction_window)
    /\ compaction_map[Unwrap(published[2].m.key)] = Some(published[2].at)
    /\ \E s \in Subscribers :
          /\ IsSome(stream[s])
          /\ Unwrap(stream[s]).start = 0
          /\ Ids(StreamAll(s)) = {1, 2}

\* The step leaves the instant of key k as it was, or removes it.
KeptOrPruned(k) == compaction_map'[k] \in {compaction_map[k], None}

\* C21: a publish without a key is forwarded whatever the compaction map
\* holds and stores no instant; a publish with a key stores no instant for
\* another key, and is suppressed only when its own key has a stored instant.
C21_KeylessNeverDuplicate ==
    [][PublishStep =>
          /\ LastPublished.m.key = None =>
                /\ ~LastPublished.dup
                /\ ForwardedToAll
                /\ \A k \in KeyNames : KeptOrPruned(k)
          /\ \A k \in KeyNames : LastPublished.m.key = Some(k) =>
                /\ \A other \in KeyNames \ {k} : KeptOrPruned(other)
                /\ LastPublished.dup => IsSome(compaction_map[k])]_vars

\* On a compacting topic a subscriber that was there from the start has been
\* sent three publishes handled at one instant: one with a key, one without
\* a key and one with another key.
C21_Witness ==
    /\ IsSome(settings.compaction_window)
    /\ Len(published) = 3
    /\ IsSome(published[1].m.key)
    /\ published[2].m.key = None
    /\ IsSome(published[3].m.key)
    /\ published[3].m.key # published[1].m.key
    /\ published[3].at = published[1].at
    /\ \E s \in Subscribers :
          /\ IsSome(stream[s])
          /\ Unwrap(stream[s]).start = 0
          /\ Ids(StreamAll(s)) = {1, 2, 3}

\* C22: after a publish on a compacting topic the map holds no instant that
\* lies more than the window before now, and still holds an instant for
\* every key whose instant did not lie that far back; on a topic without
\* compaction the map is always empty.
C22_CompactionMapPruned ==
    /\ [](~IsSome(settings.compaction_window)
            => \A k \in KeyNames : compaction_map[k] = None)
    /\ [][(PublishStep /\ IsSome(settings.compaction_window)) =>
            \A k \in KeyNames :
               /\ IsSome(compaction_map'[k]) =>
                     Unwrap(compaction_map'[k]) + Unwrap(settings.compaction_window) >= now
               /\ ( /\ IsSome(compaction_map[k])
                    /\ Unwrap(compaction_map[k]) + Unwrap(settings.compaction_window) >= now )
                  => IsSome(compaction_map'[k])]_vars

\* Two keys were published at different instants and a third publish,
\* without a key, was handled when only the instant of the first key lay
\* more than the window back: the map holds the second key only.
C22_Witness ==
    /\ IsSome(settings.compaction_window)
    /\ Len(published) = 3
    /\ IsSome(published[1].m.key)
    /\ IsSome(published[2].m.key)
    /\ published[1].m.key # published[2].m.key
    /\ published[3].m.key = None
    /\ published[1].at + Unwrap(settings.compaction_window) < published[3].at
    /\ compaction_map[Unwrap(published[1].m.key)] = None
    /\ compaction_map[Unwrap(published[2].m.key)] = Some(published[2].at)

\* C23: after a publish on a topic with retention, suppressed or not, every
\* retained message expires after now, at received_at + retention_ttl; on a
\* topic without retention nothing is ever retained, no message carries an
\* expires_at and no stream drops a message as expired.
C23_RetainedBufferPruned ==
    /\ [](~IsSome(settings.retention_ttl) =>
            /\ retained_buffer = <<>>
            /\ \A i \in DOMAIN published : published[i].m.expires_at = None
            /\ \A s \in Subscribers : \A i \in DOMAIN got[s] : ~got[s][i].expired)
    /\ [][(PublishStep /\ IsSome(settings.retention_ttl)) =>
            \A i \in DOMAIN retained_buffer' :
               LET message == retained_buffer'[i] IN
               /\ IsSome(message.expires_at)
               /\ Unwrap(message.expires_at) > now
               /\ Unwrap(message.expires_at)
                     = message.received_at + Unwrap(settings.retention_ttl)]_vars

\* The third publish was suppressed as a duplicate and its pruning removed
\* the first message from the retained buffer and left the second.
C23_Witness ==
    /\ IsSome(settings.retention_ttl)
    /\ Len(published) = 3
    /\ ~published[1].dup /\ ~published[2].dup /\ published[3].dup
    /\ Ids(retained_buffer) = {2}
    /\ Unwrap(published[1].m.expires_at) = published[3].at

\* A step in which stream s is made.
SubscribeStep(s) == stream[s] = None /\ IsSome(stream'[s])

\* C24: on a topic with retention a publish that is not suppressed and finds
\* no receiver leaves its message, unless it has expired already, as the
\* newest of the retained buffer; a stream made before the message expires
\* starts with a snapshot that holds it, and yields its snapshot first.
C24_RetainedWithoutReceivers ==
    /\ [](\A s \in Subscribers : IsSome(stream[s]) =>
             LET st == Unwrap(stream[s]) IN
             /\ Len(StreamAll(s)) >= Len(st.snap0)
             /\ SubSeq(StreamAll(s), 1, Len(st.snap0)) = st.snap0)
    /\ [][IsSome(settings.retention_ttl) =>
            /\ ( /\ PublishStep
                 /\ \A s \in Subscribers : stream[s] = None
                 /\ ~LastPublished.dup
                 /\ Unwrap(LastPublished.m.expires_at) > now )
               => ( /\ retained_buffer' # <<>>
                    /\ retained_buffer'[Len(retained_buffer')] = LastPublished.m )
            /\ \A s \in Subscribers : SubscribeStep(s) =>
                  \A i \in DOMAIN published :
                     ( /\ ~published[i].dup
                       /\ Unwrap(published[i].m.expires_at) > now )
                     => published[i].m.id \in Ids(Unwrap(stream'[s]).snapshot)]_vars

\* A stream made after two publishes that found no receiver has yielded
\* both, in their order.
C24_Witness ==
    /\ IsSome(settings.retention_ttl)
    /\ \E s \in Subscribers :
          /\ IsSome(stream[s])
          /\ Unwrap(stream[s]).start = 2
          /\ Len(got[s]) >= 2
          /\ got[s][1].m.id = 1 /\ got[s][2].m.id = 2

\* What the match of the iteration leaves of the manager of c, before the
\* delivery, for a frame that is handled within one step.
AfterMatch(c) ==
    IF peer_is_me(Head(inbox[c]), c)
    THEN HandleFrame(Local(c), Head(inbox[c]))
    ELSE Local(c)

\* An iteration of the manager of c that selects a message for a client
\* whose socket is closed: the write of the frame fails.
WriteFails(c) ==
    /\ running[c] /\ pc[c] = "recv" /\ pc'[c] = "recv"
    /\ inbox[c] # <<>>
    /\ Head(inbox[c]).inner.kind # "CloseConnection"
    /\ inbox'[c] = Tail(inbox[c])
    /\ status[c] = "eof"
    /\ LET l == AfterMatch(c) IN
       /\ l.waiting
       /\ IsSome(next(l.buffer, l.dedup_map, l.subscribed_on, l.registry).message)

\* C25: an iteration whose write fails leaves the flag set, the subscription
\* set as the match left it, nothing written, and the manager running.
C25_WriteErrorKeepsReadiness ==
    [][\A c \in Conns : WriteFails(c) =>
          /\ waiting_for_next_message'[c]
          /\ subscribed_on'[c] = AfterMatch(c).subscribed_on
          /\ sent'[c] = sent[c]
          /\ running'[c]]_vars

\* The manager of a subscribed connection whose socket is closed has handled
\* the only Publish, broadcast after the connection was accepted: the
\* message was selected and lost, the flag is still set and the manager has
\* the CloseConnection still to handle.
C25_Witness ==
    \E c \in Conns :
        /\ status[c] = "eof" /\ running[c]
        /\ joined[c] = 0 /\ npub = 1
        /\ subscribed_on[c] # {}
        /\ waiting_for_next_message[c]
        /\ buffer[c] = <<>> /\ sent[c] = <<>>
        /\ inbox[c] # <<>>
        /\ \A i \in DOMAIN inbox[c] : inbox[c][i].inner.kind = "CloseConnection"
        /\ \A d \in Conns : pending[d] = None

\* C26: a manager whose receiver was overrun keeps running (no client of
\* this workload closes or drops its connection).
C26_LagKeepsManagerRunning ==
    [][\A c \in Conns :
          (running[c] /\ lagged[c] /\ status[c] = "open") => running'[c]]_vars

\* C27: the manager of a connection whose client has sent CloseConnection
\* or whose socket has reached EOF eventually leaves its loop, and once a
\* manager has left its loop it stays out of it and writes nothing more.
C27_DisconnectTerminatesManager ==
    /\ \A c \in Conns :
          (running[c] /\ status[c] \in {"closing", "eof"}) ~> ~running[c]
    /\ [][\A c \in Conns :
             (~running[c] /\ status[c] # "new")
             => (~running'[c] /\ sent'[c] = sent[c])]_vars

\* The manager of a connection that was written a message has left its loop
\* after the socket reached EOF, and the manager of another connection, which
\* has received that CloseConnection too, is still running.
C27_Witness ==
    \E c, d \in Conns :
        /\ c # d
        /\ status[c] = "eof" /\ ~running[c] /\ sent[c] # <<>>
        /\ status[d] = "open" /\ running[d] /\ inbox[d] = <<>>

\* Message m of the buffer of manager state l is of a registered topic that
\* the connection has subscribed to.
Selected(m, l) == IsSome(l.registry[m.topic]) /\ m.topic \in l.subscribed_on

\* Such a message is past the retention of its topic.
Expired(m, l) ==
    /\ Selected(m, l)
    /\ IsSome(Unwrap(l.registry[m.topic]).retention_ttl)
    /\ now - m.received_at > Unwrap(Unwrap(l.registry[m.topic]).retention_ttl)

\* The iteration of the manager of c, handled within one step, comes to its
\* delivery with the flag set and an expired message as the oldest selected
\* one (no topic of this workload deduplicates).
MeetsExpired(c) ==
    /\ workload.name = "expiry"
    /\ running[c] /\ pc[c] = "recv" /\ pc'[c] = "recv"
    /\ inbox[c] # <<>>
    /\ inbox'[c] = Tail(inbox[c])
    /\ LET l == AfterMatch(c) IN
       /\ l.waiting
       /\ \E i \in DOMAIN l.buffer :
             /\ Expired(l.buffer[i], l)
             /\ \A j \in 1..(i - 1) : ~Selected(l.buffer[j], l)

\* C28: an iteration that meets an expired message drops it and writes the
\* oldest selected message that is not expired, clearing the flag for that
\* write only; when there is none it writes nothing, empties the buffer and
\* leaves the flag set.
C28_ExpiredKeepsReadiness ==
    [][\A c \in Conns : MeetsExpired(c) =>
          LET l == AfterMatch(c)
              fresh == {i \in DOMAIN l.buffer :
                           Selected(l.buffer[i], l) /\ ~Expired(l.buffer[i], l)}
          IN IF fresh = {}
             THEN /\ sent'[c] = sent[c]
                  /\ waiting_for_next_message'[c]
                  /\ buffer'[c] = <<>>
             ELSE LET first == CHOOSE i \in fresh : \A j \in fresh : i <= j IN
                  /\ Writes(c)
                  /\ LastWritten(c) = l.buffer[first]
                  /\ buffer'[c] = SubSeq(l.buffer, first + 1, Len(l.buffer))]_vars

\* A connection whose first Subscribe was handled after two publishes has
\* been written the second publish only: the first had expired and was
\* dropped in the same iteration, without a Commit in between.
C28_Witness ==
    \E c \in Conns :
        /\ workload.name = "expiry"
        /\ npub = 2
        /\ joined[c] = 0
        /\ sub_start[c]["a"] = Some(2)
        /\ Len(sent[c]) = 1 /\ sent[c][1].id = 2
        /\ buffer[c] = <<>> /\ inbox[c] = <<>>

\* C29: of two publishes with one key on a compacting topic, the first of
\* them the first of its key and the second handled less than the window
\* after it, the first is forwarded and the second is not, whatever the
\* order of their received_at; the second is held nowhere, and the first is
\* in the retained buffer of a topic with retention as long as no publish
\* was handled at or after its expiry.
C29_ExactlyOneOfTwo ==
    IsSome(settings.compaction_window) =>
        \A i, j \in DOMAIN published :
            ( /\ i < j
              /\ SameKey(published[i], published[j])
              /\ \A h \in 1..(i - 1) : ~SameKey(published[h], published[i])
              /\ published[j].at - published[i].at < Unwrap(settings.compaction_window) )
            => /\ ~published[i].dup
               /\ published[j].dup
               /\ ~Held(published[j].m.id)
               /\ ( /\ IsSome(settings.retention_ttl)
                    /\ \A h \in DOMAIN published :
                          Unwrap(published[i].m.expires_at) > published[h].at )
                  => published[i].m.id \in Ids(retained_buffer)

\* Two publishes of one key were handled at the same instant in the reverse
\* order of their received_at, as the frames of two connections can be: the
\* one handled first is retained and was sent to the subscriber, the other
\* was suppressed.
C29_Witness ==
    /\ IsSome(settings.compaction_window)
    /\ IsSome(settings.retention_ttl)
    /\ Len(published) = 2
    /\ SameKey(published[1], published[2])
    /\ published[1].at = published[2].at
    /\ published[2].m.received_at < published[1].m.received_at
    /\ Ids(retained_buffer) = {1}
    /\ \E s \in Subscribers :
          /\ IsSome(stream[s])
          /\ Unwrap(stream[s]).start = 0
          /\ Ids(StreamAll(s)) = {1}

(* Properties of the isolation of connections (checked under Spec). *)

\* The kinds of frames that are not CreateTopic or Publish.
ControlKinds == {"Subscribe", "Unsubscribe", "Commit", "CloseConnection"}

\* The messages that the manager of connection b has still to select from:
\* those of its buffer, then those of the Publish frames it has to receive.
ToReceive(b) ==
    buffer[b] \o
    [i \in DOMAIN SelectSeq(inbox[b], LAMBDA f : f.inner.kind = "Publish") |->
        MessageOf(SelectSeq(inbox[b], LAMBDA f : f.inner.kind = "Publish")[i])]

\* The reader of connection a sends a control frame to the broadcast.
SendsControl(a) ==
    /\ IsSome(pending[a])
    /\ Unwrap(pending[a]).inner.kind \in ControlKinds
    /\ pending'[a] = None
    /\ status'[a] # "panicked"

\* The manager of connection b receives a control frame of connection a.
ReceivesControlOf(b, a) ==
    /\ running[b] /\ pc[b] = "recv" /\ ~lagged[b]
    /\ inbox[b] # <<>>
    /\ Head(inbox[b]).send_by = a
    /\ Head(inbox[b]).inner.kind \in ControlKinds
    /\ inbox'[b] = Tail(inbox[b])

\* Nothing of connection b changes in the step.
Untouched(b) ==
    /\ subscribed_on'[b] = subscribed_on[b]
    /\ waiting_for_next_message'[b] = waiting_for_next_message[b]
    /\ sent'[b] = sent[b]
    /\ ToReceive(b)' = ToReceive(b)
    /\ running'[b] = running[b]
    /\ lagged'[b] = lagged[b]

\* C30: a control frame of connection a, when it is sent to the broadcast
\* and when the manager of another connection b receives it, leaves the
\* subscription set and the flag of b, what b was written and what b has
\* still to select from, and the state of b's receiver as they were.
C30_ConnectionsIsolated ==
    [][\A a, b \in Conns :
          (a # b /\ (SendsControl(a) \/ ReceivesControlOf(b, a))) => Untouched(b)]_vars

\* The same, for the sends that overrun no receiver (this one holds).
IsolatedWithinCapacity ==
    [][\A a, b \in Conns :
          ( /\ a # b
            /\ ~Overrun(b)
            /\ SendsControl(a) \/ ReceivesControlOf(b, a) )
          => Untouched(b)]_vars

-----------------------------------------------------------------------------
(* Properties of ZaichikCodec, under CodecSpec. *)

CodecTypeOK ==
    /\ \A i \in 1..Len(buf) : buf[i] \in 0..255
    /\ \A i \in 1..Len(tcp) : tcp[i] \in 0..255
    /\ Len(encoded) <= MaxCodecFrames

\* The step is a call of decode on a buffer that is not empty.
DecodeCall == Len(decoded') = Len(decoded) + 1

\* What the last call of decode on a non-empty buffer returned.
LastResult(calls) == calls[Len(calls)].result

\* The bytes are a non-empty proper prefix of the encoding of a frame.
PartialFrame(bytes) ==
    /\ bytes # <<>>
    /\ \E item \in CodecFrames :
          /\ Len(bytes) < Len(serialize(item))
          /\ bytes = Take(serialize(item), Len(bytes))

\* C31: when decode is called on a buffer that holds a non-empty proper
\* prefix of the encoding of a frame, it returns Ok(None) ("need more") and
\* leaves the buffer as it is.
C31_PartialFrameNeedsMore ==
    [][(DecodeCall /\ PartialFrame(buf))
          => (LastResult(decoded') = OkNone /\ buf' = buf)]_vars

\* What decode does on such a buffer: it returns the error and clears the
\* buffer.
PartialFrameClearsBuffer ==
    [][(DecodeCall /\ PartialFrame(buf))
          => (LastResult(decoded') = DecodeErr /\ buf' = <<>>)]_vars

\* The frames encoded one after the other into an empty buffer.
RECURSIVE EncodeAll(_, _)
EncodeAll(items, bytes_mut) ==
    IF items = <<>>
    THEN bytes_mut
    ELSE EncodeAll(Tail(items), encode(Head(items), bytes_mut))

\* C32: when the buffer holds the encodings of one or more frames back to
\* back and nothing else, a call of decode returns the first of these frames,
\* removes exactly its bytes and leaves the encodings of the other frames in
\* the buffer, so that successive calls return the frames in their order.
C32_MultiplexedRoundTrip ==
    [][\A k \in 1..Len(encoded), m \in 1..Len(encoded) :
          (k <= m /\ DecodeCall /\ buf = EncodeAll(SubSeq(encoded, k, m), <<>>))
              => /\ LastResult(decoded') = OkSome(encoded[k])
                 /\ buf' = EncodeAll(SubSeq(encoded, k + 1, m), <<>>)]_vars

\* Two different frames were in the buffer together and two calls of decode
\* have returned them.
C32_Witness ==
    /\ Len(encoded) = 2
    /\ encoded[1] # encoded[2]
    /\ Len(decoded) = 2
    /\ decoded[1].had = Len(EncodeAll(encoded, <<>>))
    /\ decoded[1].result = OkSome(encoded[1])
    /\ decoded[2].had = Len(serialize(encoded[2]))
    /\ decoded[2].result = OkSome(encoded[2])
    /\ buf = <<>>

-----------------------------------------------------------------------------
(* Properties of the manager's deduplication, under DedupSpec. *)

\* The oldest message of the buffer of l that the connection is subscribed
\* to, if there is one.
OldestSelected(l) ==
    {i \in DOMAIN l.buffer :
        /\ Selected(l.buffer[i], l)
        /\ \A j \in 1..(i - 1) : ~Selected(l.buffer[j], l)}

\* The iteration of the manager of c, handled within one step, comes to its
\* delivery with the flag set and, as the oldest selected message, one with a
\* key that was never written to c on that message's topic.
MeetsNewKeyOnTopic(c) ==
    /\ running[c] /\ pc[c] = "recv" /\ pc'[c] = "recv"
    /\ inbox[c] # <<>>
    /\ inbox'[c] = Tail(inbox[c])
    /\ LET l == AfterMatch(c) IN
       /\ l.waiting
       /\ \E i \in OldestSelected(l) :
             /\ IsSome(l.buffer[i].key)
             /\ \A n \in DOMAIN l.sent :
                   ~(l.sent[n].topic = l.buffer[i].topic /\ l.sent[n].key = l.buffer[i].key)

\* C33: a message with key k on topic T2 is not suppressed because of a
\* message with key k on another topic: when the oldest message the
\* connection is to receive has a key that was never written to it on that
\* topic, the iteration writes that message.
C33_CompactionPerTopic ==
    [][\A c \in Conns : MeetsNewKeyOnTopic(c) =>
          LET l == AfterMatch(c) IN
          /\ Writes(c)
          /\ \E i \in OldestSelected(l) : LastWritten(c) = l.buffer[i]]_vars

\* What the code does: the message is written unless its key, on whatever
\* topic, is in the connection's dedup_map.
SuppressedByKeyOnly ==
    [][\A c \in Conns : MeetsNewKeyOnTopic(c) =>
          LET l == AfterMatch(c) IN
          \/ /\ Writes(c)
             /\ \E i \in OldestSelected(l) : LastWritten(c) = l.buffer[i]
          \/ \E i \in OldestSelected(l) :
                /\ IsSome(l.dedup_map[Unwrap(l.buffer[i].key)])
                /\ \E n \in DOMAIN l.sent :
                      /\ l.sent[n].key = l.buffer[i].key
                      /\ l.sent[n].topic # l.buffer[i].topic]_vars

-----------------------------------------------------------------------------
(* Properties of a repeated Subscribe, under ResubSpec. *)

\* How many times the message with this id was yielded to the consumer and
\* not dropped as out of date.
TimesDelivered(yielded, id) ==
    Cardinality({i \in DOMAIN yielded : yielded[i].m.id = id /\ ~yielded[i].expired})

NeverWrittenTwice ==
    \A c \in Conns : \A i, j \in DOMAIN sent[c] :
        i # j => sent[c][i].id # sent[c][j].id

=========================================================================
